---- MODULE Spec2Model ----
(***************************************************************************)
(* Session engine (TimeTracker) of the web time tracker, layered on the    *)
(* storage aggregation layer (StorageManager) over browser.storage.local.  *)
(*                                                                         *)
(* Every engine call is one action: the calls are made one at a time, so   *)
(* an action covers the whole async method, each raw storage call it       *)
(* makes included.  Each raw storage call may reject: where a call is     *)
(* made the action chooses whether it rejects (fr* for a raw get, fw* for *)
(* a raw set), and it chooses the clock readings where the code reads them.*)
(***************************************************************************)
EXTENDS Integers, Sequences, FiniteSets, TLC

(***************************************************************************)
(* Bounds of the model.                                                    *)
(***************************************************************************)
\* longest domain argument handed to startSession, in characters
MaxLen == 2
\* performance.now() readings are 0..MaxClock
MaxClock == 1
\* Date.now() readings fall on the days 0..MaxDay
MaxDay == 1
\* completed sessions kept in the domains map, all domains together
MaxSessions == 2
\* event handlers that can be in flight at once
MaxHandlers == 2
\* events the browser dispatches in one run
MaxEvents == 3
\* calls of BackgroundService.initialize in one run
MaxInits == 3
\* longest URL handed to extractDomain, in tokens
MaxUrlLen == 4

\* milliseconds in one UTC day: Date#toISOString().split('T')[0] changes
\* exactly when Date.now() crosses a multiple of it
DayMs == 86400000

(***************************************************************************)
(* Values.                                                                 *)
(***************************************************************************)
\* JavaScript null (and an absent storage key, which every accessor reads
\* through `|| null`)
Null == [null |-> TRUE]

\* characters of a domain argument; " " stands for the white space that
\* String.prototype.trim removes
Chars == {" ", "a"}

IsSpace(c) == c = " "

\* the strings startSession is called with
DomainInputs == UNION {[1..n -> Chars] : n \in 0..MaxLen}

\* a JavaScript number handed in as tabId or windowId: NaN, or a multiple
\* of one half (v counts halves, so 1 is v = 2 and 0.5 is v = 1)
NaN == [kind |-> "nan", v |-> 0]

Num(v) == [kind |-> "num", v |-> v]

TabIdInputs == {NaN, Num(-2), Num(0), Num(1), Num(2)}

WindowIdInputs == {NaN, Num(-2), Num(0), Num(1)}

\* a number kept under a storage key (an absent key is Null)
Stored(n) == [value |-> n]

\* the slots event handlers run in
Handlers == 1..MaxHandlers

\* a slot no handler has run in yet
IdleHandler == [pc |-> "idle"]

\* readings of performance.now()
Clock == 0..MaxClock

\* readings of Date.now(): the last millisecond of a day and the first of
\* the next
WallClock == UNION {{k * DayMs - 1, k * DayMs} : k \in 1..MaxDay}

(***************************************************************************)
(* Pure helpers.                                                           *)
(***************************************************************************)
RECURSIVE TrimStart(_)
TrimStart(s) ==
    IF s = <<>> \/ ~IsSpace(Head(s)) THEN s ELSE TrimStart(Tail(s))

RECURSIVE TrimEnd(_)
TrimEnd(s) ==
    IF s = <<>> \/ ~IsSpace(s[Len(s)]) THEN s
    ELSE TrimEnd(SubSeq(s, 1, Len(s) - 1))

\* String.prototype.trim
Trim(s) == TrimEnd(TrimStart(s))

\* Number.isInteger
IsInteger(x) == x.kind = "num" /\ x.v % 2 = 0

\* x < 0 (false for NaN)
IsNegative(x) == x.kind = "num" /\ x.v < 0

\* the integer a number that passed Number.isInteger denotes
IntOf(x) == x.v \div 2

\* !domain || domain.trim() === ''
BlankDomain(domain) == domain = <<>> \/ Trim(domain) = <<>>

\* BadId with the bound written as id <= 0: the id 0 is turned away
BadId_RejectsZero(id) == ~IsInteger(id) \/ (id.kind = "num" /\ id.v <= 0)

\* !Number.isInteger(id) || id < 0
BadId(id) == ~IsInteger(id) \/ IsNegative(id)

\* calculateDuration without the clamp
calculateDuration_Signed(startTime, endTime) == endTime - startTime

\* Math.max(0, end - start)
calculateDuration(startTime, endTime) ==
    LET duration == endTime - startTime
    IN  IF duration > 0 THEN duration ELSE 0

\* DateKey rounding to the nearest midnight instead of down
DateKey_Rounded(wall) == (wall + DayMs \div 2) \div DayMs

\* new Date(Date.now()).toISOString().split('T')[0], as the number of the
\* UTC day the reading falls on
DateKey(wall) == wall \div DayMs

(***************************************************************************)
(* State.                                                                  *)
(***************************************************************************)
VARIABLES
    \* browser.storage.local key 'activeSession': Null or an ActiveSession
    activeSession,
    \* browser.storage.local key 'domains': domain -> DomainData
    domains,
    \* history: for each domain, the Date.now() reading at which each entry
    \* of its sessions list was folded (parallel to domains[d].sessions)
    stopWall,
    \* history: the performance.now() reading at which the session in the
    \* slot was started (0 while the slot is empty)
    startedAt,
    \* the last call made and what its caller observed
    last,
    \* browser.storage.local keys 'version', 'installDate' and 'settings':
    \* Null while the key is absent
    version,
    installDate,
    settings,
    \* the event handlers of the BackgroundService in flight: for each
    \* handler slot, where the handler stands and its local variables
    handlers,
    \* events dispatched so far
    dispatched,
    \* history: the handler slot whose raw write put the present content
    \* into the 'activeSession' key (0: none)
    slotWriter,
    \* the BackgroundService: its field initialized, and history: how often
    \* registerEventListeners ran (registered), how often
    \* storageManager.initialize was called (storageInits), how many calls
    \* of initialize ended in an error (failures), the calls of
    \* initialize made (calls), and how many of them are suspended at
    \* await this.storageManager.initialize() (awaiting)
    service,
    \* history of the sessions the handlers start: how many were written
    \* into the slot (started; the n-th one written is session n), which
    \* one the slot holds (slot; 0: none), for each domain the sessions
    \* its sessions list was folded from (ids, parallel to
    \* domains[d].sessions), the sessions a stopSession has folded and
    \* then cleared from the slot (cleared), whether every event
    \* dispatched so far was a tab or navigation event (tabsOnly), and how
    \* many sessions had been written when the most recent window-focus
    \* event was dispatched, if it carried the no-window id (lostAt; -1 if
    \* there was none or it carried a window)
    ledger

\* the storage keys only StorageManager.initialize and the settings
\* accessors touch
bootstrap == <<version, installDate, settings>>

\* the state of the BackgroundService's handlers
orchestrator == <<handlers, dispatched, slotWriter, service, ledger>>

vars == <<activeSession, domains, stopWall, startedAt, last, version,
          installDate, settings, handlers, dispatched, slotWriter, service,
          ledger>>

\* the BackgroundService as constructed: private initialized = false
NewService ==
    [initialized |-> FALSE, registered |-> 0, storageInits |-> 0,
     failures |-> 0, calls |-> 0, awaiting |-> 0]

\* no session started by a handler yet
EmptyLedger ==
    [started |-> 0, slot |-> 0, ids |-> <<>>, cleared |-> {},
     tabsOnly |-> TRUE, lostAt |-> -1]

\* what the caller of an operation observes: how it ended (outcome "ok",
\* "null" or "error", and the error raised), the value it resolved to, the
\* performance.now() reading a call that did not fail took (0 if none), the
\* raw storage calls it made (reads, writes), and for a call that did not
\* end in an error how many of its raw reads rejected and were absorbed
\* (faults; an error is always recorded with faults = 1)
Observed(op, outcome, err, ret, now, reads, writes, faults) ==
    [op |-> op, outcome |-> outcome, err |-> err, ret |-> ret, now |-> now,
     reads |-> reads, writes |-> writes, faults |-> faults]

B(flag) == IF flag THEN 1 ELSE 0

RECURSIVE SumLen(_, _)
SumLen(map, keys) ==
    IF keys = {} THEN 0
    ELSE LET k == CHOOSE x \in keys : TRUE
         IN  Len(map[k].sessions) + SumLen(map, keys \ {k})

\* completed sessions held in a domains map
TotalSessions(map) == SumLen(map, DOMAIN map)

(***************************************************************************)
(* StorageManager.                                                         *)
(***************************************************************************)
createEmptyDomainData(wall) ==
    [totalTime |-> 0, sessions |-> <<>>, dailyStats |-> <<>>,
     lastAccessed |-> wall]

\* getActiveSession: a rejected raw read is logged and read as null
getActiveSession(stored, fail) ==
    IF fail THEN Null ELSE stored

\* getDomainData: a rejected raw read is logged and read as an empty record
getDomainData(stored, domain, wall, fail) ==
    IF fail THEN createEmptyDomainData(wall)
    ELSE IF domain \in DOMAIN stored THEN stored[domain]
    ELSE createEmptyDomainData(wall)

\* { ...current, ...updates }
Spread(current, updates) ==
    [f \in DOMAIN current \cup DOMAIN updates |->
        IF f \in DOMAIN updates THEN updates[f] ELSE current[f]]

\* MergedDomains merging the updates over an empty record whatever the
\* domain's record holds
MergedDomains_Replace(stored, domain, updates, wall) ==
    LET updatedDomainData ==
            [Spread(createEmptyDomainData(wall), updates) EXCEPT
                !.lastAccessed = wall]
    IN  [k \in DOMAIN stored \cup {domain} |->
            IF k = domain THEN updatedDomainData ELSE stored[k]]

\* updateDomainData after its raw read of the domains map succeeded: merge
\* the updates over the domain's record, stamp it, and build the map that
\* is written back
MergedDomains(stored, domain, updates, wall) ==
    LET currentDomainData ==
            IF domain \in DOMAIN stored THEN stored[domain]
            ELSE createEmptyDomainData(wall)
        updatedDomainData ==
            [Spread(currentDomainData, updates) EXCEPT !.lastAccessed = wall]
    IN  [k \in DOMAIN stored \cup {domain} |->
            IF k = domain THEN updatedDomainData ELSE stored[k]]

(***************************************************************************)
(* TimeTracker.                                                            *)
(***************************************************************************)
\* FoldUpdates adding endTime - startTime instead of the clamped duration
FoldUpdates_Unclamped(domainData, session, wall) ==
    LET sessionDate == DateKey(wall)
        existingDailyTime ==
            IF sessionDate \in DOMAIN domainData.dailyStats
            THEN domainData.dailyStats[sessionDate] ELSE 0
    IN  [totalTime |->
            domainData.totalTime + (session.endTime - session.startTime),
         sessions |-> Append(domainData.sessions, session),
         dailyStats |->
            [k \in DOMAIN domainData.dailyStats \cup {sessionDate} |->
                IF k = sessionDate THEN existingDailyTime + session.duration
                ELSE domainData.dailyStats[k]],
         lastAccessed |-> wall]

\* FoldUpdates putting the duration into the day's bucket instead of
\* adding it
FoldUpdates_BucketReplaced(domainData, session, wall) ==
    LET sessionDate == DateKey(wall)
    IN  [totalTime |-> domainData.totalTime + session.duration,
         sessions |-> Append(domainData.sessions, session),
         dailyStats |->
            [k \in DOMAIN domainData.dailyStats \cup {sessionDate} |->
                IF k = sessionDate THEN session.duration
                ELSE domainData.dailyStats[k]],
         lastAccessed |-> wall]

\* FoldUpdates writing a list that holds the new session only
FoldUpdates_DropsHistory(domainData, session, wall) ==
    LET sessionDate == DateKey(wall)
        existingDailyTime ==
            IF sessionDate \in DOMAIN domainData.dailyStats
            THEN domainData.dailyStats[sessionDate] ELSE 0
    IN  [totalTime |-> domainData.totalTime + session.duration,
         sessions |-> <<session>>,
         dailyStats |->
            [k \in DOMAIN domainData.dailyStats \cup {sessionDate} |->
                IF k = sessionDate THEN existingDailyTime + session.duration
                ELSE domainData.dailyStats[k]],
         lastAccessed |-> wall]

\* the partial update TimeTracker.updateDomainData builds from the record
\* it read
FoldUpdates(domainData, session, wall) ==
    LET sessionDate == DateKey(wall)
        existingDailyTime ==
            IF sessionDate \in DOMAIN domainData.dailyStats
            THEN domainData.dailyStats[sessionDate] ELSE 0
    IN  [totalTime |-> domainData.totalTime + session.duration,
         sessions |-> Append(domainData.sessions, session),
         dailyStats |->
            [k \in DOMAIN domainData.dailyStats \cup {sessionDate} |->
                IF k = sessionDate THEN existingDailyTime + session.duration
                ELSE domainData.dailyStats[k]],
         lastAccessed |-> wall]

\* SessionDuration with the clock gated by the pause flag
SessionDuration_Gated(session, now) ==
    IF session.isPaused THEN 0 ELSE calculateDuration(session.startTime, now)

\* getSessionDuration(session) at performance.now() = now
SessionDuration(session, now) == calculateDuration(session.startTime, now)

\* NewSession keeping the domain as given
NewSession_Untrimmed(domain, tabId, windowId, now) ==
    [domain |-> domain, tabId |-> IntOf(tabId),
     windowId |-> IntOf(windowId), startTime |-> now, isPaused |-> FALSE]

\* NewSession starting the session paused
NewSession_Paused(domain, tabId, windowId, now) ==
    [domain |-> Trim(domain), tabId |-> IntOf(tabId),
     windowId |-> IntOf(windowId), startTime |-> now, isPaused |-> TRUE]

\* the session startSession builds
NewSession(domain, tabId, windowId, now) ==
    [domain |-> Trim(domain), tabId |-> IntOf(tabId),
     windowId |-> IntOf(windowId), startTime |-> now, isPaused |-> FALSE]

\* the Session stopSession builds
CompletedSession(active, now) ==
    [startTime |-> active.startTime, endTime |-> now,
     duration |-> calculateDuration(active.startTime, now),
     tabId |-> active.tabId, windowId |-> active.windowId]

Init ==
    /\ activeSession = Null
    /\ domains = <<>>
    /\ stopWall = <<>>
    /\ startedAt = 0
    /\ last = Observed("none", "ok", "none", Null, 0, 0, 0, 0)
    /\ version = Null
    /\ installDate = Null
    /\ settings = Null
    /\ handlers = [h \in Handlers |-> IdleHandler]
    /\ dispatched = 0
    /\ slotWriter = 0
    /\ service = NewService
    /\ ledger = EmptyLedger

\* startSession(domain, tabId, windowId)
StartSession(domain, tabId, windowId) ==
    /\ UNCHANGED <<domains, stopWall, bootstrap, orchestrator>>
    /\ IF BlankDomain(domain) THEN
          /\ last' = Observed("start", "error", "EmptyDomain", Null, 0, 0, 0, 0)
          /\ UNCHANGED <<activeSession, startedAt>>
       ELSE IF BadId(tabId) THEN
          /\ last' = Observed("start", "error", "BadTabId", Null, 0, 0, 0, 0)
          /\ UNCHANGED <<activeSession, startedAt>>
       ELSE IF BadId(windowId) THEN
          /\ last' = Observed("start", "error", "BadWindowId", Null, 0, 0, 0, 0)
          /\ UNCHANGED <<activeSession, startedAt>>
       ELSE \E frSlot \in BOOLEAN :
          IF getActiveSession(activeSession, frSlot) # Null THEN
             /\ last' = Observed("start", "error", "Conflict", Null, 0, 1, 0, 0)
             /\ UNCHANGED <<activeSession, startedAt>>
          ELSE \E now \in Clock, fwSlot \in BOOLEAN :
             LET session == NewSession(domain, tabId, windowId, now)
             IN  IF fwSlot THEN
                    /\ last' = Observed("start", "error", "Storage", Null, 0,
                                        1, 1, 1)
                    /\ UNCHANGED <<activeSession, startedAt>>
                 ELSE
                    \* the model starts no session it could not fold
                    /\ TotalSessions(domains) < MaxSessions
                    /\ activeSession' = session
                    /\ startedAt' = now
                    /\ last' = Observed("start", "ok", "none", session, now,
                                        1, 1, B(frSlot))

\* StopIdle clearing the slot all the same
StopIdle_Clears(frSlot) ==
    Observed("stop", "null", "none", Null, 0, 1, 1, B(frSlot))

\* what stopSession resolves to when it reads no session: null, nothing
\* written
StopIdle(frSlot) ==
    Observed("stop", "null", "none", Null, 0, 1, 0, B(frSlot))

\* stopSession(); the Date.now() readings of one call are the same
\* millisecond, wall
StopSession ==
    /\ UNCHANGED <<bootstrap, orchestrator>>
    /\ \E frSlot \in BOOLEAN :
      LET active == getActiveSession(activeSession, frSlot)
      IN  IF active = Null THEN
            /\ last' = StopIdle(frSlot)
            /\ UNCHANGED <<activeSession, domains, stopWall, startedAt>>
          ELSE \E now \in Clock, wall \in WallClock, frData \in BOOLEAN,
                  failAt \in {"get", "set", "clear", "none"} :
            LET completed == CompletedSession(active, now)
                domainData == getDomainData(domains, active.domain, wall, frData)
                readWall ==
                    IF ~frData /\ active.domain \in DOMAIN stopWall
                    THEN stopWall[active.domain] ELSE <<>>
                updates == FoldUpdates(domainData, completed, wall)
                faults == B(frData)
            IN  /\ TotalSessions(domains) < MaxSessions
                /\ IF failAt = "get" THEN
                      \* updateDomainData: the raw read rejects
                      /\ last' = Observed("stop", "error", "Storage", Null, 0,
                                          3, 0, 1)
                      /\ UNCHANGED <<activeSession, domains, stopWall,
                                     startedAt>>
                   ELSE IF failAt = "set" THEN
                      \* updateDomainData: the raw write rejects
                      /\ last' = Observed("stop", "error", "Storage", Null, 0,
                                          3, 1, 1)
                      /\ UNCHANGED <<activeSession, domains, stopWall,
                                     startedAt>>
                   ELSE
                      /\ domains' = MergedDomains(domains, active.domain,
                                                  updates, wall)
                      /\ stopWall' =
                            [k \in DOMAIN stopWall \cup {active.domain} |->
                                IF k = active.domain
                                THEN Append(readWall, wall)
                                ELSE stopWall[k]]
                      /\ IF failAt = "clear" THEN
                            \* setActiveSession(null): the raw write rejects
                            /\ last' = Observed("stop", "error", "Storage",
                                                Null, 0, 3, 2, 1)
                            /\ UNCHANGED <<activeSession, startedAt>>
                         ELSE
                            /\ activeSession' = Null
                            /\ startedAt' = 0
                            /\ last' = Observed("stop", "ok", "none", completed,
                                                now, 3, 2, faults)

\* pauseSession() (paused = TRUE) and resumeSession() (paused = FALSE)
SetPaused(op, paused) ==
    /\ UNCHANGED <<domains, stopWall, startedAt, bootstrap, orchestrator>>
    /\ \E frSlot \in BOOLEAN :
         LET active == getActiveSession(activeSession, frSlot)
         IN  IF active = Null THEN
               /\ last' = Observed(op, "null", "none", Null, 0, 1, 0, B(frSlot))
               /\ UNCHANGED activeSession
             ELSE \E fwSlot \in BOOLEAN :
               LET session == [active EXCEPT !.isPaused = paused]
               IN  IF fwSlot THEN
                      /\ last' = Observed(op, "error", "Storage", Null, 0,
                                          1, 1, 1)
                      /\ UNCHANGED activeSession
                   ELSE
                      /\ activeSession' = session
                      /\ last' = Observed(op, "ok", "none", session, 0, 1, 1, 0)

PauseSession == SetPaused("pause", TRUE)

ResumeSession == SetPaused("resume", FALSE)

\* getSessionDuration(session) for the session the slot holds; the value
\* it returns is the field duration of what the caller observes
GetSessionDuration ==
    /\ activeSession # Null
    /\ \E now \in Clock :
         last' = Observed("duration", "ok", "none",
                          [session |-> activeSession,
                           duration |-> SessionDuration(activeSession, now)],
                          now, 0, 0, 0)
    /\ UNCHANGED <<activeSession, domains, stopWall, startedAt, bootstrap,
                   orchestrator>>

Next ==
    \/ \E domain \in DomainInputs, tabId \in TabIdInputs,
          windowId \in WindowIdInputs :
          StartSession(domain, tabId, windowId)
    \/ StopSession
    \/ PauseSession
    \/ ResumeSession
    \/ GetSessionDuration

Spec == Init /\ [][Next]_vars

(***************************************************************************)
(* StorageManager: bootstrap, typed passthrough and best-effort accessors. *)
(***************************************************************************)
getDefaultSettings ==
    [pillPosition |-> "top-right", pillVisibility |-> TRUE,
     dataRetentionDays |-> 30, excludedDomains |-> {}]

\* getSettings without the `|| defaults` for a key that is absent
getSettings_NoFallback(stored, fail) ==
    IF fail THEN getDefaultSettings ELSE stored

\* getSettings: a rejected raw read is logged and read as the defaults
getSettings(stored, fail) ==
    IF fail THEN getDefaultSettings
    ELSE IF stored = Null THEN getDefaultSettings
    ELSE stored

\* !existing.version, !existing.installDate: the key is absent or holds 0
Falsy(x) == x = Null \/ x.value = 0

\* the value the key holds after a raw set of items
After(items, key, old) == IF key \in DOMAIN items THEN items[key] ELSE old

\* InitializeUpdates writing the three keys whatever is stored
InitializeUpdates_Always(existingVersion, existingInstallDate, existingSettings, wall) ==
    [k \in {"version", "installDate", "settings"} |->
        IF k = "version" THEN Stored(1)
        ELSE IF k = "installDate" THEN Stored(wall)
        ELSE getDefaultSettings]

\* the updates initialize collects from what it read
InitializeUpdates(existingVersion, existingInstallDate, existingSettings, wall) ==
    LET missing ==
            (IF Falsy(existingVersion) THEN {"version"} ELSE {})
            \cup (IF Falsy(existingInstallDate) THEN {"installDate"} ELSE {})
            \cup (IF existingSettings = Null THEN {"settings"} ELSE {})
    IN  [k \in missing |->
            IF k = "version" THEN Stored(1)
            ELSE IF k = "installDate" THEN Stored(wall)
            ELSE getDefaultSettings]

\* StorageManager.initialize() as its caller op observes it
InitializeAs(op) ==
    /\ UNCHANGED <<activeSession, domains, stopWall, startedAt>>
    /\ \E frKeys \in BOOLEAN :
         IF frKeys THEN
            /\ last' = Observed(op, "error", "Storage", Null, 0,
                                1, 0, 1)
            /\ UNCHANGED bootstrap
         ELSE \E wall \in WallClock :
            LET updates == InitializeUpdates(version, installDate, settings,
                                             wall)
            IN  IF DOMAIN updates = {} THEN
                   /\ last' = Observed(op, "ok", "none", Null, 0,
                                       1, 0, 0)
                   /\ UNCHANGED bootstrap
                ELSE \E fwKeys \in BOOLEAN :
                   IF fwKeys THEN
                      /\ last' = Observed(op, "error", "Storage",
                                          Null, 0, 1, 1, 1)
                      /\ UNCHANGED bootstrap
                   ELSE
                      /\ version' = After(updates, "version", version)
                      /\ installDate' =
                            After(updates, "installDate", installDate)
                      /\ settings' = After(updates, "settings", settings)
                      /\ last' = Observed(op, "ok", "none", Null,
                                          0, 1, 1, 0)

\* initialize()
Initialize == InitializeAs("initialize") /\ UNCHANGED orchestrator

\* settings other than the defaults, with a domain on the exclusion list
CustomSettings ==
    [pillPosition |-> "bottom-left", pillVisibility |-> FALSE,
     dataRetentionDays |-> 7, excludedDomains |-> {<<"a", "a">>}]

\* a session and a domains map as the session engine stores them
StoredSession == NewSession(<<"a">>, Num(2), Num(2), 0)

StoredDomains ==
    LET wall == DayMs
        session == CompletedSession(StoredSession, 1)
    IN  MergedDomains(<<>>, <<"a">>,
                      FoldUpdates(createEmptyDomainData(wall), session, wall),
                      wall)

\* the partial schemas handed to set
SetInputs ==
    {[version |-> Stored(0)], [version |-> Stored(2)],
     [installDate |-> Stored(0)], [installDate |-> Stored(DayMs)],
     [settings |-> CustomSettings],
     [version |-> Stored(2), installDate |-> Stored(DayMs),
      settings |-> CustomSettings],
     [activeSession |-> StoredSession], [activeSession |-> Null],
     [domains |-> StoredDomains]}

\* set(items) when the raw set rejects (fwItems) or resolves
SetAttempt(items, fwItems) ==
    /\ UNCHANGED <<stopWall, startedAt, orchestrator>>
    /\ IF fwItems THEN
          /\ last' = Observed("set", "error", "Storage", Null, 0, 0, 1, 1)
          /\ UNCHANGED <<activeSession, domains, bootstrap>>
       ELSE
          /\ version' = After(items, "version", version)
          /\ installDate' = After(items, "installDate", installDate)
          /\ settings' = After(items, "settings", settings)
          /\ activeSession' = After(items, "activeSession", activeSession)
          /\ domains' = After(items, "domains", domains)
          /\ last' = Observed("set", "ok", "none", Null, 0, 0, 1, 0)

\* set(items): the typed passthrough to the raw set
Set(items) == \E fwItems \in BOOLEAN : SetAttempt(items, fwItems)

\* the sessions handed to setActiveSession
SessionInputs == {StoredSession, Null}

\* SetActiveSessionAttempt swallowing the rejection of the raw set
SetActiveSessionAttempt_Silent(session, fwSlot) ==
    /\ UNCHANGED <<domains, stopWall, startedAt, bootstrap, orchestrator>>
    /\ activeSession' = IF fwSlot THEN activeSession ELSE session
    /\ last' = Observed("setActiveSession", "ok", "none", Null, 0, 0, 1, 0)

\* setActiveSession(session) when the raw set rejects (fwSlot) or resolves
SetActiveSessionAttempt(session, fwSlot) ==
    /\ UNCHANGED <<domains, stopWall, startedAt, bootstrap, orchestrator>>
    /\ IF fwSlot THEN
          /\ last' = Observed("setActiveSession", "error", "Storage", Null,
                              0, 0, 1, 1)
          /\ UNCHANGED activeSession
       ELSE
          /\ activeSession' = session
          /\ last' = Observed("setActiveSession", "ok", "none", Null, 0, 0,
                              1, 0)

\* setActiveSession(session)
SetActiveSession(session) ==
    \E fwSlot \in BOOLEAN : SetActiveSessionAttempt(session, fwSlot)

\* the partial records handed to updateDomainData
DomainUpdates ==
    {[totalTime |-> 7], [sessions |-> <<>>, lastAccessed |-> 1]}

\* readings of Date.now() in updateDomainData called directly
UpdateWallClock == {2 * DayMs}

\* updateDomainData(domain, updates) when its raw get rejects (frDomains),
\* its raw set rejects (fwDomains), or both resolve; what the caller
\* observes is the domain and the updates it handed over and the clock
\* reading taken
UpdateDomainDataAttempt(domain, updates, wall, frDomains, fwDomains) ==
    LET call == [domain |-> domain, updates |-> updates, wall |-> wall]
    IN  /\ UNCHANGED <<activeSession, stopWall, startedAt, bootstrap,
                       orchestrator>>
        /\ IF frDomains THEN
              /\ last' = Observed("updateDomainData", "error", "Storage",
                                  call, 0, 1, 0, 1)
              /\ UNCHANGED domains
           ELSE IF fwDomains THEN
              /\ last' = Observed("updateDomainData", "error", "Storage",
                                  call, 0, 1, 1, 1)
              /\ UNCHANGED domains
           ELSE
              /\ domains' = MergedDomains(domains, domain, updates, wall)
              /\ last' = Observed("updateDomainData", "ok", "none", call, 0,
                                  1, 1, 0)

\* updateDomainData(domain, updates)
UpdateDomainData(domain, updates) ==
    \E wall \in UpdateWallClock, frDomains \in BOOLEAN,
       fwDomains \in BOOLEAN :
       UpdateDomainDataAttempt(domain, updates, wall, frDomains, fwDomains)

\* the partial settings handed to updateSettings
SettingsUpdates ==
    {[pillVisibility |-> FALSE], [excludedDomains |-> {<<"a">>}]}

\* updateSettings(updates) when the raw get inside getSettings rejects
\* (frSettings), the raw set rejects (fwSettings), or both resolve
UpdateSettingsAttempt(updates, frSettings, fwSettings) ==
    /\ UNCHANGED <<activeSession, domains, stopWall, startedAt, version,
                   installDate, orchestrator>>
    /\ LET currentSettings == getSettings(settings, frSettings)
           updatedSettings == Spread(currentSettings, updates)
       IN  IF fwSettings THEN
              /\ last' = Observed("updateSettings", "error", "Storage",
                                  Null, 0, 1, 1, 1)
              /\ UNCHANGED settings
           ELSE
              /\ settings' = updatedSettings
              /\ last' = Observed("updateSettings", "ok", "none", Null, 0,
                                  1, 1, B(frSettings))

\* updateSettings(updates)
UpdateSettings(updates) ==
    \E frSettings \in BOOLEAN, fwSettings \in BOOLEAN :
       UpdateSettingsAttempt(updates, frSettings, fwSettings)

\* getSettings()
GetSettings ==
    /\ UNCHANGED <<activeSession, domains, stopWall, startedAt, bootstrap,
                   orchestrator>>
    /\ \E frSettings \in BOOLEAN :
         last' = Observed("getSettings", "ok", "none",
                          getSettings(settings, frSettings), 0, 1, 0,
                          B(frSettings))

\* getActiveSession()
GetActiveSession ==
    /\ UNCHANGED <<activeSession, domains, stopWall, startedAt, bootstrap,
                   orchestrator>>
    /\ \E frSlot \in BOOLEAN :
         last' = Observed("getActiveSession", "ok", "none",
                          getActiveSession(activeSession, frSlot), 0, 1, 0,
                          B(frSlot))

\* getDomainData(domain); what the caller observes is the domain asked for
\* and the record returned
GetDomainData(domain) ==
    /\ UNCHANGED <<activeSession, domains, stopWall, startedAt, bootstrap,
                   orchestrator>>
    /\ \E frData \in BOOLEAN, wall \in WallClock :
         last' = Observed("getDomainData", "ok", "none",
                          [domain |-> domain,
                           data |-> getDomainData(domains, domain, wall,
                                                  frData)],
                          0, 1, 0, B(frData))

\* the schema getAll builds from the five keys it read
getAll(data, wall) ==
    [domains |-> data.domains,
     activeSession |-> data.activeSession,
     settings |-> IF data.settings = Null THEN getDefaultSettings
                  ELSE data.settings,
     version |-> IF Falsy(data.version) THEN Stored(1) ELSE data.version,
     installDate |-> IF Falsy(data.installDate) THEN Stored(wall)
                     ELSE data.installDate]

\* getAll(): one raw read of the five keys; a rejected read is rethrown
GetAll ==
    /\ UNCHANGED <<activeSession, domains, stopWall, startedAt, bootstrap,
                   orchestrator>>
    /\ \E frAll \in BOOLEAN, wall \in WallClock :
         IF frAll THEN
            last' = Observed("getAll", "error", "Storage", Null, 0, 1, 0, 1)
         ELSE
            last' = Observed("getAll", "ok", "none",
                             getAll([domains |-> domains,
                                     activeSession |-> activeSession,
                                     settings |-> settings,
                                     version |-> version,
                                     installDate |-> installDate], wall),
                             wall, 1, 0, 0)

\* the domains getDomainData is asked for
DomainKeys == {<<"a">>, <<"a", "a">>}

NextStorage ==
    \/ \E items \in SetInputs : Set(items)
    \/ Initialize
    \/ \E updates \in SettingsUpdates : UpdateSettings(updates)
    \/ GetSettings
    \/ GetActiveSession
    \/ \E domain \in DomainKeys : GetDomainData(domain)
    \/ \E session \in SessionInputs : SetActiveSession(session)
    \/ \E domain \in DomainKeys, updates \in DomainUpdates :
          UpdateDomainData(domain, updates)
    \/ GetAll

\* the storage layer called directly, from empty storage
SpecStorage == Init /\ [][NextStorage]_vars

(***************************************************************************)
(* BackgroundService: initialize and isInitialized.  The calls are made    *)
(* one after another, so a call is one action.                             *)
(***************************************************************************)
\* the service after a call of initialize that ran storage initialization
\* and saw it end as outcome
Initialized(outcome) ==
    IF outcome = "ok"
    THEN [service EXCEPT !.calls = @ + 1, !.storageInits = @ + 1,
                         !.registered = @ + 1, !.initialized = TRUE]
    ELSE [service EXCEPT !.calls = @ + 1, !.storageInits = @ + 1,
                         !.failures = @ + 1]

\* ServiceInitialize without the test of this.initialized
ServiceInitialize_Unguarded ==
    /\ service.calls < MaxInits
    /\ UNCHANGED <<handlers, dispatched, slotWriter, ledger>>
    /\ InitializeAs("serviceInitialize")
    /\ service' = Initialized(last'.outcome)

\* ServiceInitialize setting this.initialized before storage is initialized
ServiceInitialize_FlagFirst ==
    /\ service.calls < MaxInits
    /\ UNCHANGED <<handlers, dispatched, slotWriter, ledger>>
    /\ IF service.initialized THEN
          /\ last' = Observed("serviceInitialize", "ok", "none", Null, 0, 0,
                              0, 0)
          /\ service' = [service EXCEPT !.calls = @ + 1]
          /\ UNCHANGED <<activeSession, domains, stopWall, startedAt,
                         bootstrap>>
       ELSE
          /\ InitializeAs("serviceInitialize")
          /\ service' = [Initialized(last'.outcome) EXCEPT
                            !.initialized = TRUE]

\* BackgroundService.initialize(): return if initialized; await
\* storageManager.initialize(), registerEventListeners(), initialized =
\* true; an error is logged and raised again
ServiceInitialize ==
    /\ service.calls < MaxInits
    /\ UNCHANGED <<handlers, dispatched, slotWriter, ledger>>
    /\ IF service.initialized THEN
          /\ last' = Observed("serviceInitialize", "ok", "none", Null, 0, 0,
                              0, 0)
          /\ service' = [service EXCEPT !.calls = @ + 1]
          /\ UNCHANGED <<activeSession, domains, stopWall, startedAt,
                         bootstrap>>
       ELSE
          /\ InitializeAs("serviceInitialize")
          /\ service' = Initialized(last'.outcome)

\* isInitialized()
IsInitialized ==
    /\ last' = Observed("isInitialized", "ok", "none",
                        [initialized |-> service.initialized], 0, 0, 0, 0)
    /\ UNCHANGED <<activeSession, domains, stopWall, startedAt, bootstrap,
                   orchestrator>>

NextService ==
    \/ ServiceInitialize
    \/ IsInitialized
    \/ \E items \in SetInputs : Set(items)

\* the service constructed over empty storage, initialized by its owner
\* while storage is written through the storage layer
SpecService == Init /\ [][NextService]_vars

(***************************************************************************)
(* BackgroundService.initialize called again before an earlier call has    *)
(* returned: a call suspends at await this.storageManager.initialize(),    *)
(* and the calls in flight interleave there.                               *)
(***************************************************************************)
\* initialize() up to its await: return if initialized, else call
\* storageManager.initialize() and suspend
InitializeEnter ==
    /\ service.calls < MaxInits
    /\ UNCHANGED <<activeSession, domains, stopWall, startedAt, bootstrap,
                   handlers, dispatched, slotWriter, ledger>>
    /\ IF service.initialized THEN
          /\ last' = Observed("serviceInitialize", "ok", "none", Null, 0, 0,
                              0, 0)
          /\ service' = [service EXCEPT !.calls = @ + 1]
       ELSE
          /\ service' = [service EXCEPT !.calls = @ + 1, !.awaiting = @ + 1]
          /\ UNCHANGED last

\* a suspended initialize() resumes: storageManager.initialize() has run;
\* if it resolved, registerEventListeners() and initialized = true, else
\* the error is logged and raised again
InitializeResume ==
    /\ service.awaiting > 0
    /\ UNCHANGED <<handlers, dispatched, slotWriter, ledger>>
    /\ InitializeAs("serviceInitialize")
    /\ service' = [Initialized(last'.outcome) EXCEPT
                      !.calls = service.calls, !.awaiting = @ - 1]

NextOverlap ==
    \/ InitializeEnter
    \/ InitializeResume
    \/ IsInitialized
    \/ \E items \in SetInputs : Set(items)

\* the service constructed over empty storage, with calls of initialize
\* that overlap
SpecOverlap == Init /\ [][NextOverlap]_vars

(***************************************************************************)
(* TimeTracker.extractDomain.  A URL string is a sequence of tokens: the   *)
(* words "chrome", "moz-extension", "about", "http" and "a" (each a run of *)
(* letters), and the characters ":" and "/".                               *)
(***************************************************************************)
UrlTokens == {"chrome", "moz-extension", "about", "http", "a", ":", "/"}

\* the tokens that are runs of letters
Words == UrlTokens \ {":", "/"}

\* the strings handed to extractDomain
UrlStrings == UNION {[1..n -> UrlTokens] : n \in 0..MaxUrlLen}

\* a value of type string
Str(chars) == [kind |-> "string", chars |-> chars]

\* what extractDomain is called with: a string, null or a number
ExtractInputs == {Str(chars) : chars \in UrlStrings} \cup {Null, Num(2)}

\* typeof url === 'string'
IsString(url) == url # Null /\ url.kind = "string"

\* the string 'unknown'
Unknown == <<"unknown">>

\* String.prototype.startsWith
StartsWith(str, prefix) ==
    Len(str) >= Len(prefix) /\ SubSeq(str, 1, Len(prefix)) = prefix

\* the places where sep occurs in str
Occurrences(str, sep) ==
    {i \in 1..(Len(str) - Len(sep) + 1) :
        SubSeq(str, i, i + Len(sep) - 1) = sep}

\* str.split(sep): the number of parts and the first part
SplitLength(str, sep) == Cardinality(Occurrences(str, sep)) + 1

SplitFirst(str, sep) ==
    LET at == Occurrences(str, sep)
    IN  IF at = {} THEN str
        ELSE SubSeq(str, 1, (CHOOSE i \in at : \A j \in at : i <= j) - 1)

\* the longest prefix of str made of tokens of the set keep
RECURSIVE TakeWhile(_, _)
TakeWhile(str, keep) ==
    IF str = <<>> \/ Head(str) \notin keep THEN <<>>
    ELSE <<Head(str)>> \o TakeWhile(Tail(str), keep)

\* str without its first n tokens
Drop(str, n) == SubSeq(str, n + 1, Len(str))

\* the host and port of an authority: the words up to the first ":" or
\* "/", and after a ":" a port, which must be empty (no token is a digit)
Authority(str) ==
    LET host == TakeWhile(str, Words)
        rest == Drop(str, Len(host))
    IN  IF rest # <<>> /\ Head(rest) = ":"
           /\ Len(rest) > 1 /\ rest[2] # "/"
        THEN Null
        ELSE [hostname |-> host]

\* new URL(url): Null when the constructor throws, else the hostname (one
\* word or several, "" for a URL without a host).  A URL needs a scheme,
\* words followed by ":"; after "http:" any number of slashes is skipped
\* and a host must follow; after another scheme a host is read only after
\* "//" and may be empty
ParseUrl(str) ==
    LET scheme == TakeWhile(str, Words)
        rest == Drop(str, Len(scheme) + 1)
    IN  IF scheme = <<>> \/ Len(str) = Len(scheme)
           \/ str[Len(scheme) + 1] # ":"
        THEN Null
        ELSE IF scheme = <<"http">> THEN
           LET authority ==
                   Authority(Drop(rest, Len(TakeWhile(rest, {"/"}))))
           IN  IF authority = Null \/ authority.hostname = <<>> THEN Null
               ELSE authority
        ELSE IF StartsWith(rest, <<"/", "/">>) THEN Authority(Drop(rest, 2))
        ELSE [hostname |-> <<>>]

\* extractDomain(url); an exception of new URL is caught and 'unknown'
\* returned
extractDomain(url) ==
    IF url = Null \/ ~IsString(url) THEN Unknown
    ELSE IF url.chars = <<>> THEN Unknown
    ELSE IF \/ StartsWith(url.chars, <<"chrome", ":", "/", "/">>)
            \/ StartsWith(url.chars, <<"moz-extension", ":", "/", "/">>)
            \/ StartsWith(url.chars, <<"about", ":">>)
    THEN IF SplitLength(url.chars, <<":", "/", "/">>) > 1
         THEN SplitFirst(url.chars, <<":", "/", "/">>)
         ELSE Unknown
    ELSE LET parsedUrl == ParseUrl(url.chars)
         IN  IF parsedUrl = Null THEN Unknown
             ELSE IF parsedUrl.hostname = <<>> THEN Unknown
             ELSE parsedUrl.hostname

\* extractDomain(url) called; its caller observes the argument and the
\* string returned
ExtractDomain(url) ==
    /\ last' = Observed("extractDomain", "ok", "none",
                        [url |-> url, domain |-> extractDomain(url)], 0, 0,
                        0, 0)
    /\ UNCHANGED <<activeSession, domains, stopWall, startedAt, bootstrap,
                   orchestrator>>

NextDomain == \E url \in ExtractInputs : ExtractDomain(url)

\* extractDomain called on every input
SpecDomain == Init /\ [][NextDomain]_vars

(***************************************************************************)
(* BackgroundService: the four event handlers.  A handler runs until it    *)
(* awaits a raw call (browser.tabs.get, the raw storage get and set); the  *)
(* raw call and the code that follows it up to the next raw call are one   *)
(* step, and the steps of handlers in flight interleave.                   *)
(***************************************************************************)
\* browser.windows.WINDOW_ID_NONE
WindowIdNone == -1

\* a URL as the URL parser reads it
Url(protocol, hostname) == [protocol |-> protocol, hostname |-> hostname]

\* the URLs of tabs and events; Null is a missing URL
UrlInputs ==
    {Null, Url("chrome:", <<"a">>), Url("http:", <<"a">>),
     Url("https:", <<"a", "a">>)}

\* isValidUrl letting every URL that parses through
isValidUrl_AnyScheme(url) == url # Null

\* isValidUrl
isValidUrl(url) == url # Null /\ url.protocol \in {"http:", "https:"}

\* extractDomain of a URL that parses: its hostname
HostOf(url) == url.hostname

\* isDomainExcluded
isDomainExcluded(stored, domain, fail) ==
    domain \in getSettings(stored, fail).excludedDomains

\* the tab id and the window id the browser hands to the handlers
EventTabIds == {Num(4)}

EventWindowIds == {Num(2)}

\* the events dispatched
ActivatedEvents ==
    [kind : {"activated"}, tabId : EventTabIds, windowId : EventWindowIds]

UpdatedEvents ==
    [kind : {"updated"}, tabId : EventTabIds, url : UrlInputs,
     tab : [active : BOOLEAN, windowId : EventWindowIds]]

FocusEvents == [kind : {"focus"}, windowId : {WindowIdNone, 1}]

NavigationEvents ==
    [kind : {"navigation"}, tabId : EventTabIds, frameId : {0, 1},
     url : UrlInputs \ {Null}]

\* a call of shutdown(); it runs like a handler
ShutdownCalls == {[kind |-> "shutdown"]}

Events ==
    ActivatedEvents \cup UpdatedEvents \cup FocusEvents
       \cup NavigationEvents \cup ShutdownCalls

\* what browser.tabs.get can resolve to for the event
TabsFor(event) ==
    IF event.kind = "activated"
    THEN [url : UrlInputs, active : {TRUE}, windowId : {event.windowId}]
    ELSE [url : {event.url}, active : BOOLEAN, windowId : EventWindowIds]

\* readings of Date.now() while the handlers run
EventWallClock == {DayMs}

\* a handler in flight: where it stands (pc), its event, its local
\* variables (tab, domain, activeSession, completedSession, updatedData,
\* toWrite, session), and history: the slot when the event was dispatched
\* (before; Null once another handler is in flight with it), whether no
\* other handler was in flight with it (alone), whether a raw call of it
\* rejected (faulty), the handler it raced with in startSession
\* (racedWith), which session it read from the slot (sid), from which
\* sessions the list in updatedData was folded (ids), and the same for
\* each list of the map toWrite (idsToWrite)
Handler(event, before, alone) ==
    [pc |-> "dispatched", event |-> event, tab |-> Null, domain |-> <<>>,
     activeSession |-> Null, completedSession |-> Null, updatedData |-> Null,
     toWrite |-> Null, session |-> Null, before |-> before, alone |-> alone,
     faulty |-> FALSE, racedWith |-> 0, sid |-> 0, ids |-> <<>>,
     idsToWrite |-> <<>>]

\* a handler that has returned, and how; history: the handler it raced
\* with in startSession, and whether it returned after a raw read of it
\* had rejected and been absorbed
Returned(outcome, error, racedWith, absorbed) ==
    [pc |-> "done", outcome |-> outcome, error |-> error,
     racedWith |-> racedWith, absorbed |-> absorbed]

\* the event fails a filter: return
Ignored == Returned("ignored", "none", 0, FALSE)

\* Caught letting the error out of the handler
Caught_Rethrows(error) == Returned("escaped", error, 0, FALSE)

\* catch (error) { console.error(...) }: the handler resolves
Caught(error) == Returned("caught", error, 0, FALSE)

InFlight(rec) == rec.pc \notin {"idle", "done"}

\* a raw read of the handler rejected and was absorbed
Absorbed(rec, fail) == [rec EXCEPT !.faulty = @ \/ fail]

\* the handler calls startSession(domain, tabId, windowId): the arguments
\* are validated before the first raw call
EnterStart(rec, tabId, windowId) ==
    IF BlankDomain(rec.domain) \/ BadId(tabId) \/ BadId(windowId)
    THEN Caught("Validation")
    ELSE [rec EXCEPT !.pc = "start_slot"]

\* StartTabId handing over the window id
StartTabId_Window(rec) ==
    IF rec.event.kind = "activated" THEN rec.event.windowId
    ELSE rec.tab.windowId

\* the tabId and windowId a restarting handler hands to startSession
StartTabId(rec) == rec.event.tabId

StartWindowId(rec) ==
    IF rec.event.kind = "activated" THEN rec.event.windowId
    ELSE rec.tab.windowId

\* AfterStop with every caller returning after the stop
AfterStop_Returns(rec) == Returned("ok", "none", 0, rec.faulty)

\* stopSession has returned to its caller: shutdown logs and returns, a
\* handler goes on to startSession
AfterStop(rec) ==
    IF rec.event.kind = "shutdown"
    THEN Returned("ok", "none", 0, rec.faulty)
    ELSE EnterStart(rec, StartTabId(rec), StartWindowId(rec))

\* the browser dispatches an event to the lowest free handler slot
Dispatch(h, event) ==
    /\ dispatched < MaxEvents
    /\ ~InFlight(handlers[h])
    /\ \A g \in Handlers : g < h => InFlight(handlers[g])
    /\ dispatched' = dispatched + 1
    /\ LET alone == \A g \in Handlers : ~InFlight(handlers[g])
       IN  handlers' =
              [g \in Handlers |->
                  IF g = h
                  THEN Handler(event, IF alone THEN activeSession ELSE Null,
                               alone)
                  ELSE IF InFlight(handlers[g])
                  THEN [handlers[g] EXCEPT !.alone = FALSE, !.before = Null]
                  ELSE handlers[g]]
    /\ ledger' = [ledger EXCEPT
                     !.tabsOnly = @ /\ event.kind \notin {"focus", "shutdown"},
                     !.lostAt = IF event.kind # "focus" THEN @
                                ELSE IF event.windowId = WindowIdNone
                                THEN ledger.started
                                ELSE -1]
    /\ UNCHANGED <<activeSession, domains, stopWall, startedAt, last,
                   bootstrap, service, slotWriter>>

\* the handler body up to its first raw call
Enter(h) ==
    LET rec == handlers[h]
        event == rec.event
    IN  /\ rec.pc = "dispatched"
        /\ handlers' = [handlers EXCEPT ![h] =
              IF event.kind = "activated" THEN [rec EXCEPT !.pc = "tabs_get"]
              ELSE IF event.kind = "updated" THEN
                 IF event.url = Null \/ ~event.tab.active THEN Ignored
                 ELSE IF ~isValidUrl(event.url) THEN Ignored
                 ELSE [rec EXCEPT !.pc = "settings", !.tab = event.tab,
                                  !.domain = HostOf(event.url)]
              ELSE IF event.kind \in {"focus", "shutdown"}
              THEN [rec EXCEPT !.pc = "slot"]
              ELSE IF event.frameId # 0 THEN Ignored
              ELSE IF ~isValidUrl(event.url) THEN Ignored
              ELSE [rec EXCEPT !.pc = "tabs_get"]]
        /\ UNCHANGED <<activeSession, domains, stopWall, startedAt, last,
                       bootstrap, service, dispatched, slotWriter, ledger>>

\* await browser.tabs.get(tabId) and the filters that follow it
TabsGet(h) ==
    LET rec == handlers[h]
    IN  /\ rec.pc = "tabs_get"
        /\ \E failTabs \in BOOLEAN :
             IF failTabs THEN
                handlers' = [handlers EXCEPT ![h] = Caught("Browser")]
             ELSE \E tab \in TabsFor(rec.event) :
                LET got == [rec EXCEPT !.tab = tab]
                IN  handlers' = [handlers EXCEPT ![h] =
                       IF rec.event.kind = "activated" THEN
                          IF tab.url = Null \/ ~isValidUrl(tab.url)
                          THEN Ignored
                          ELSE [got EXCEPT !.pc = "settings",
                                           !.domain = HostOf(tab.url)]
                       ELSE
                          IF ~tab.active THEN Ignored
                          ELSE [got EXCEPT !.pc = "settings",
                                           !.domain = HostOf(rec.event.url)]]
        /\ UNCHANGED <<activeSession, domains, stopWall, startedAt, last,
                       bootstrap, service, dispatched, slotWriter, ledger>>

\* await this.isDomainExcluded(domain)
ReadSettings(h) ==
    LET rec == handlers[h]
    IN  /\ rec.pc = "settings"
        /\ \E frSettings \in BOOLEAN :
             handlers' = [handlers EXCEPT ![h] =
                IF isDomainExcluded(settings, rec.domain, frSettings)
                THEN Ignored
                ELSE [Absorbed(rec, frSettings) EXCEPT !.pc = "slot"]]
        /\ UNCHANGED <<activeSession, domains, stopWall, startedAt, last,
                       bootstrap, service, dispatched, slotWriter, ledger>>

\* ReadSlot with shutdown calling stopSession whatever it read
ReadSlot_ShutdownStopsAnyway(h) ==
    LET rec == handlers[h]
    IN  /\ rec.pc = "slot"
        /\ \E frSlot \in BOOLEAN :
             LET active == getActiveSession(activeSession, frSlot)
                 read == Absorbed(rec, frSlot)
             IN  handlers' = [handlers EXCEPT ![h] =
                    IF rec.event.kind = "focus" THEN
                       IF active = Null
                       THEN Returned("ok", "none", 0, read.faulty)
                       ELSE IF rec.event.windowId = WindowIdNone
                       THEN [read EXCEPT !.pc = "pause_slot"]
                       ELSE IF active.isPaused
                       THEN [read EXCEPT !.pc = "resume_slot"]
                       ELSE Returned("ok", "none", 0, read.faulty)
                    ELSE IF rec.event.kind = "shutdown" THEN
                       IF active # Null
                       THEN [read EXCEPT !.pc = "stop_slot"]
                       ELSE [read EXCEPT !.pc = "stop_slot"]
                    ELSE IF active # Null
                    THEN [read EXCEPT !.pc = "stop_slot"]
                    ELSE EnterStart(read, StartTabId(read),
                                    StartWindowId(read))]
        /\ UNCHANGED <<activeSession, domains, stopWall, startedAt, last,
                       bootstrap, service, dispatched, slotWriter, ledger>>

\* the handler's own await this.storageManager.getActiveSession()
ReadSlot(h) ==
    LET rec == handlers[h]
    IN  /\ rec.pc = "slot"
        /\ \E frSlot \in BOOLEAN :
             LET active == getActiveSession(activeSession, frSlot)
                 read == Absorbed(rec, frSlot)
             IN  handlers' = [handlers EXCEPT ![h] =
                    IF rec.event.kind = "focus" THEN
                       IF active = Null
                       THEN Returned("ok", "none", 0, read.faulty)
                       ELSE IF rec.event.windowId = WindowIdNone
                       THEN [read EXCEPT !.pc = "pause_slot"]
                       ELSE IF active.isPaused
                       THEN [read EXCEPT !.pc = "resume_slot"]
                       ELSE Returned("ok", "none", 0, read.faulty)
                    ELSE IF rec.event.kind = "shutdown" THEN
                       IF active # Null
                       THEN [read EXCEPT !.pc = "stop_slot"]
                       ELSE Returned("ok", "none", 0, read.faulty)
                    ELSE IF active # Null
                    THEN [read EXCEPT !.pc = "stop_slot"]
                    ELSE EnterStart(read, StartTabId(read),
                                    StartWindowId(read))]
        /\ UNCHANGED <<activeSession, domains, stopWall, startedAt, last,
                       bootstrap, service, dispatched, slotWriter, ledger>>

\* stopSession in a handler: await this.storageManager.getActiveSession()
StopReadSlot(h) ==
    LET rec == handlers[h]
    IN  /\ rec.pc = "stop_slot"
        /\ \E frSlot \in BOOLEAN, now \in Clock :
             LET active == getActiveSession(activeSession, frSlot)
                 read == Absorbed(rec, frSlot)
             IN  handlers' = [handlers EXCEPT ![h] =
                    IF active = Null
                    THEN AfterStop(read)
                    ELSE [read EXCEPT
                             !.pc = "stop_data",
                             !.sid = ledger.slot,
                             !.activeSession = active,
                             !.completedSession =
                                 CompletedSession(active, now)]]
        /\ UNCHANGED <<activeSession, domains, stopWall, startedAt, last,
                       bootstrap, service, dispatched, slotWriter, ledger>>

\* TimeTracker.updateDomainData: await getDomainData(domain), then the
\* partial update is built
StopReadData(h) ==
    LET rec == handlers[h]
    IN  /\ rec.pc = "stop_data"
        /\ TotalSessions(domains) < MaxSessions
        /\ \E frData \in BOOLEAN, wall \in EventWallClock :
             LET domain == rec.activeSession.domain
                 domainData == getDomainData(domains, domain, wall, frData)
                 idsRead == IF ~frData /\ domain \in DOMAIN ledger.ids
                            THEN ledger.ids[domain] ELSE <<>>
             IN  handlers' = [handlers EXCEPT ![h] =
                    [Absorbed(rec, frData) EXCEPT
                        !.pc = "merge_read",
                        !.ids = Append(idsRead, rec.sid),
                        !.updatedData =
                            FoldUpdates(domainData, rec.completedSession,
                                        wall)]]
        /\ UNCHANGED <<activeSession, domains, stopWall, startedAt, last,
                       bootstrap, service, dispatched, slotWriter, ledger>>

\* StorageManager.updateDomainData: await this.get(['domains']), then the
\* map to write is built from what was read
MergeRead(h) ==
    LET rec == handlers[h]
    IN  /\ rec.pc = "merge_read"
        /\ \E frDomains \in BOOLEAN, wall \in EventWallClock :
             handlers' = [handlers EXCEPT ![h] =
                IF frDomains THEN Caught("Storage")
                ELSE [rec EXCEPT
                         !.pc = "merge_write",
                         !.updatedData = Null,
                         !.ids = <<>>,
                         !.idsToWrite =
                             [k \in DOMAIN ledger.ids
                                     \cup {rec.activeSession.domain} |->
                                 IF k = rec.activeSession.domain THEN rec.ids
                                 ELSE ledger.ids[k]],
                         !.toWrite =
                             MergedDomains(domains, rec.activeSession.domain,
                                           rec.updatedData, wall)]]
        /\ UNCHANGED <<activeSession, domains, stopWall, startedAt, last,
                       bootstrap, service, dispatched, slotWriter, ledger>>

\* StorageManager.updateDomainData: await this.set({ domains: ... })
MergeWrite(h) ==
    LET rec == handlers[h]
    IN  /\ rec.pc = "merge_write"
        /\ \E fwDomains \in BOOLEAN :
             IF fwDomains THEN
                /\ handlers' = [handlers EXCEPT ![h] = Caught("Storage")]
                /\ UNCHANGED <<domains, ledger>>
             ELSE
                /\ domains' = rec.toWrite
                /\ ledger' = [ledger EXCEPT !.ids = rec.idsToWrite]
                /\ handlers' = [handlers EXCEPT ![h] =
                                   [rec EXCEPT !.pc = "stop_clear",
                                               !.toWrite = Null,
                                               !.idsToWrite = <<>>]]
        /\ UNCHANGED <<activeSession, stopWall, startedAt, last, bootstrap,
                       service, dispatched, slotWriter>>

\* stopSession: await this.storageManager.setActiveSession(null); the
\* handler then calls startSession
StopClear(h) ==
    LET rec == handlers[h]
    IN  /\ rec.pc = "stop_clear"
        /\ \E fwSlot \in BOOLEAN :
             IF fwSlot THEN
                /\ handlers' = [handlers EXCEPT ![h] = Caught("Storage")]
                /\ UNCHANGED <<activeSession, slotWriter, ledger>>
             ELSE
                /\ activeSession' = Null
                /\ slotWriter' = h
                /\ ledger' = [ledger EXCEPT !.slot = 0,
                                            !.cleared = @ \cup {rec.sid}]
                /\ handlers' = [handlers EXCEPT ![h] =
                      AfterStop([rec EXCEPT !.activeSession = Null,
                                            !.completedSession = Null,
                                            !.sid = 0])]
        /\ UNCHANGED <<domains, stopWall, startedAt, last, bootstrap,
                       service, dispatched>>

\* startSession in a handler: await this.storageManager.getActiveSession()
\* and the check of what it returned
StartReadSlot(h) ==
    LET rec == handlers[h]
    IN  /\ rec.pc = "start_slot"
        /\ \E frSlot \in BOOLEAN, now \in Clock :
             LET existingSession == getActiveSession(activeSession, frSlot)
                 read == Absorbed(rec, frSlot)
                 \* history: the handlers that read the slot empty and have
                 \* not written it yet
                 rivals == IF read.faulty THEN {}
                           ELSE {g \in Handlers \ {h} :
                                    /\ handlers[g].pc = "start_write"
                                    /\ ~handlers[g].faulty}
             IN  IF existingSession # Null THEN
                    handlers' = [handlers EXCEPT ![h] = Caught("Conflict")]
                 ELSE
                    handlers' =
                       [g \in Handlers |->
                           IF g = h THEN
                              [read EXCEPT
                                  !.pc = "start_write",
                                  !.session =
                                      NewSession(rec.domain, StartTabId(rec),
                                                 StartWindowId(rec), now),
                                  !.racedWith =
                                      IF rivals # {}
                                      THEN CHOOSE g2 \in rivals : TRUE
                                      ELSE 0]
                           ELSE IF g \in rivals
                           THEN [handlers[g] EXCEPT !.racedWith = h]
                           ELSE handlers[g]]
        /\ UNCHANGED <<activeSession, domains, stopWall, startedAt, last,
                       bootstrap, service, dispatched, slotWriter, ledger>>

\* StartWrite refusing to write over a session that is in the slot
StartWrite_Checked(h) ==
    LET rec == handlers[h]
    IN  /\ rec.pc = "start_write"
        /\ \E fwSlot \in BOOLEAN :
             IF fwSlot THEN
                /\ handlers' = [handlers EXCEPT ![h] = Caught("Storage")]
                /\ UNCHANGED <<activeSession, slotWriter, ledger>>
             ELSE IF activeSession # Null THEN
                /\ handlers' = [handlers EXCEPT ![h] = Caught("Conflict")]
                /\ UNCHANGED <<activeSession, slotWriter, ledger>>
             ELSE
                /\ activeSession' = rec.session
                /\ slotWriter' = h
                /\ ledger' = [ledger EXCEPT !.started = @ + 1,
                                            !.slot = ledger.started + 1]
                /\ handlers' = [handlers EXCEPT ![h] =
                                   Returned("ok", "none", rec.racedWith,
                                            rec.faulty)]
        /\ UNCHANGED <<domains, stopWall, startedAt, last, bootstrap,
                       service, dispatched>>

\* startSession: await this.storageManager.setActiveSession(session)
StartWrite(h) ==
    LET rec == handlers[h]
    IN  /\ rec.pc = "start_write"
        /\ \E fwSlot \in BOOLEAN :
             IF fwSlot THEN
                /\ handlers' = [handlers EXCEPT ![h] = Caught("Storage")]
                /\ UNCHANGED <<activeSession, slotWriter, ledger>>
             ELSE
                /\ activeSession' = rec.session
                /\ slotWriter' = h
                /\ ledger' = [ledger EXCEPT !.started = @ + 1,
                                            !.slot = ledger.started + 1]
                /\ handlers' = [handlers EXCEPT ![h] =
                                   Returned("ok", "none", rec.racedWith,
                                            rec.faulty)]
        /\ UNCHANGED <<domains, stopWall, startedAt, last, bootstrap,
                       service, dispatched>>

\* pauseSession / resumeSession in the focus handler: await
\* this.storageManager.getActiveSession()
ToggleReadSlot(h) ==
    LET rec == handlers[h]
    IN  /\ rec.pc \in {"pause_slot", "resume_slot"}
        /\ \E frSlot \in BOOLEAN :
             LET active == getActiveSession(activeSession, frSlot)
             IN  handlers' = [handlers EXCEPT ![h] =
                    IF active = Null
                    THEN Returned("ok", "none", 0, rec.faulty \/ frSlot)
                    ELSE [Absorbed(rec, frSlot) EXCEPT
                             !.pc = "toggle_write",
                             !.sid = ledger.slot,
                             !.session =
                                 [active EXCEPT
                                     !.isPaused = (rec.pc = "pause_slot")]]]
        /\ UNCHANGED <<activeSession, domains, stopWall, startedAt, last,
                       bootstrap, service, dispatched, slotWriter, ledger>>

\* ToggleWrite clearing the slot instead of writing the session back
ToggleWrite_Stops(h) ==
    LET rec == handlers[h]
    IN  /\ rec.pc = "toggle_write"
        /\ activeSession' = Null
        /\ slotWriter' = h
        /\ ledger' = [ledger EXCEPT !.slot = 0]
        /\ handlers' = [handlers EXCEPT ![h] =
                           Returned("ok", "none", 0, rec.faulty)]
        /\ UNCHANGED <<domains, stopWall, startedAt, last, bootstrap,
                       service, dispatched>>

\* pauseSession / resumeSession: await
\* this.storageManager.setActiveSession(session)
ToggleWrite(h) ==
    LET rec == handlers[h]
    IN  /\ rec.pc = "toggle_write"
        /\ \E fwSlot \in BOOLEAN :
             IF fwSlot THEN
                /\ handlers' = [handlers EXCEPT ![h] = Caught("Storage")]
                /\ UNCHANGED <<activeSession, slotWriter, ledger>>
             ELSE
                /\ activeSession' = rec.session
                /\ slotWriter' = h
                /\ ledger' = [ledger EXCEPT !.slot = rec.sid]
                /\ handlers' = [handlers EXCEPT ![h] =
                                   Returned("ok", "none", 0, rec.faulty)]
        /\ UNCHANGED <<domains, stopWall, startedAt, last, bootstrap,
                       service, dispatched>>

\* the service after initialize, over storage in which updateSettings has
\* put a domain on the exclusion list
InitEvents ==
    /\ activeSession = Null
    /\ domains = <<>>
    /\ stopWall = <<>>
    /\ startedAt = 0
    /\ last = Observed("none", "ok", "none", Null, 0, 0, 0, 0)
    /\ version = Stored(1)
    /\ installDate = Stored(DayMs)
    /\ settings = CustomSettings
    /\ handlers = [h \in Handlers |-> IdleHandler]
    /\ dispatched = 0
    /\ slotWriter = 0
    /\ service = [NewService EXCEPT !.initialized = TRUE, !.registered = 1,
                                    !.storageInits = 1, !.calls = 1]
    /\ ledger = EmptyLedger

NextEvents ==
    \/ \E h \in Handlers, event \in Events : Dispatch(h, event)
    \/ \E h \in Handlers : Enter(h)
    \/ \E h \in Handlers : TabsGet(h)
    \/ \E h \in Handlers : ReadSettings(h)
    \/ \E h \in Handlers : ReadSlot(h)
    \/ \E h \in Handlers : StopReadSlot(h)
    \/ \E h \in Handlers : StopReadData(h)
    \/ \E h \in Handlers : MergeRead(h)
    \/ \E h \in Handlers : MergeWrite(h)
    \/ \E h \in Handlers : StopClear(h)
    \/ \E h \in Handlers : StartReadSlot(h)
    \/ \E h \in Handlers : StartWrite(h)
    \/ \E h \in Handlers : ToggleReadSlot(h)
    \/ \E h \in Handlers : ToggleWrite(h)

\* the event handlers, interleaved at their raw calls
SpecEvents == InitEvents /\ [][NextEvents]_vars

(***************************************************************************)
(* Vocabulary of the properties, written without the operators above.     *)
(***************************************************************************)
\* max(0, x)
Max0(x) == IF x > 0 THEN x ELSE 0

\* a string made of white space only (the empty string included)
AllSpaces(s) == \A i \in 1..Len(s) : s[i] = " "

\* x is s without its leading and trailing white space
IsTrimOf(x, s) ==
    /\ x # <<>>
    /\ x[1] # " "
    /\ x[Len(x)] # " "
    /\ \E i \in 0..Len(s) :
          /\ i + Len(x) <= Len(s)
          /\ SubSeq(s, i + 1, i + Len(x)) = x
          /\ \A j \in 1..Len(s) : (j <= i \/ j > i + Len(x)) => s[j] = " "

\* the number x handed in is the non-negative integer n
IsIdOf(n, x) == n >= 0 /\ x = [kind |-> "num", v |-> 2 * n]

\* the number x handed in is a non-negative integer
IsId(x) == x.kind = "num" /\ x.v >= 0 /\ \E n \in 0..x.v : x.v = n + n

\* a well-formed ActiveSession
IsActiveSession(x) ==
    /\ DOMAIN x = {"domain", "startTime", "tabId", "windowId", "isPaused"}
    /\ ~AllSpaces(x.domain)
    /\ x.startTime \in Clock
    /\ x.tabId \in Nat
    /\ x.windowId \in Nat
    /\ x.isPaused \in BOOLEAN

RECURSIVE SumDurations(_)
SumDurations(sessions) ==
    IF sessions = <<>> THEN 0
    ELSE Head(sessions).duration + SumDurations(Tail(sessions))

IsPrefix(s, t) == Len(s) <= Len(t) /\ SubSeq(t, 1, Len(s)) = s

ValidationErrors == {"EmptyDomain", "BadTabId", "BadWindowId"}

(***************************************************************************)
(* Properties.                                                             *)
(***************************************************************************)
\* C1: whatever calls were made, the slot holds null or one well-formed
\* session; and right after a startSession(domain, tabId, windowId) that
\* succeeded the slot holds exactly the session it returned: the trimmed
\* domain, the tabId and windowId given, startTime = the clock reading of
\* the call, isPaused = false.
C1_StartPersistsReturnedSession ==
    /\ activeSession = Null \/ IsActiveSession(activeSession)
    /\ \A domain \in DomainInputs, tabId \in TabIdInputs,
          windowId \in WindowIdInputs :
          ~ENABLED (/\ StartSession(domain, tabId, windowId)
                    /\ last'.outcome = "ok"
                    /\ ~(/\ activeSession' = last'.ret
                         /\ IsTrimOf(activeSession'.domain, domain)
                         /\ IsIdOf(activeSession'.tabId, tabId)
                         /\ IsIdOf(activeSession'.windowId, windowId)
                         /\ activeSession'.startTime = last'.now
                         /\ activeSession'.isPaused = FALSE))

\* a session was started after an earlier one had been stopped
C1_Witness ==
    /\ last.op = "start"
    /\ last.outcome = "ok"
    /\ activeSession = last.ret
    /\ activeSession.tabId = 1
    /\ activeSession.startTime > 0
    /\ DOMAIN domains # {}

\* C2: a stopSession made while a session is in the slot, none of whose
\* storage calls fails, returns the Session (startTime of the slot's
\* session, endTime = the clock at the stop, duration = max(0, endTime -
\* startTime), same tabId and windowId); afterwards the domain's totalTime
\* is its value before plus that duration, its sessions list is the list
\* before with the returned Session appended, the slot is null, and every
\* other domain's record is as before.
C2_StopFoldsSession ==
    [][(last'.op = "stop" /\ last'.outcome = "ok" /\ last'.faults = 0
        /\ activeSession # Null) =>
       LET d == activeSession.domain
           totalBefore == IF d \in DOMAIN domains THEN domains[d].totalTime
                          ELSE 0
           sessionsBefore == IF d \in DOMAIN domains THEN domains[d].sessions
                             ELSE <<>>
           returned == last'.ret
       IN  /\ returned =
                [startTime |-> activeSession.startTime,
                 endTime |-> last'.now,
                 duration |-> Max0(last'.now - activeSession.startTime),
                 tabId |-> activeSession.tabId,
                 windowId |-> activeSession.windowId]
           /\ DOMAIN domains' = DOMAIN domains \cup {d}
           /\ domains'[d].totalTime = totalBefore + returned.duration
           /\ domains'[d].sessions = Append(sessionsBefore, returned)
           /\ activeSession' = Null
           /\ \A e \in DOMAIN domains \ {d} : domains'[e] = domains[e]]_vars

\* a fault-free stop has appended a second session of positive duration to
\* a domain that already had time on it
C2_Witness ==
    /\ last.op = "stop"
    /\ last.outcome = "ok"
    /\ last.faults = 0
    /\ activeSession = Null
    /\ \E d \in DOMAIN domains :
          /\ Len(domains[d].sessions) = 2
          /\ domains[d].sessions[2] = last.ret
          /\ last.ret.duration > 0
          /\ domains[d].totalTime > last.ret.duration

\* C3: startSession with valid arguments, called while the slot holds a
\* session (paused or not), ends in the conflict error and leaves the slot
\* and the domains map as they were.
C3_StartWhileActiveConflicts ==
    activeSession # Null =>
      \A domain \in DomainInputs, tabId \in TabIdInputs,
         windowId \in WindowIdInputs :
         (~AllSpaces(domain) /\ IsId(tabId) /\ IsId(windowId)) =>
            ~ENABLED (/\ StartSession(domain, tabId, windowId)
                      /\ ~(/\ last'.outcome = "error"
                           /\ last'.err = "Conflict"
                           /\ activeSession' = activeSession
                           /\ domains' = domains))

\* C4: for every stored domain, totalTime is the sum of the durations of
\* its sessions list.
C4_TotalTimeIsSumOfDurations ==
    \A d \in DOMAIN domains :
       domains[d].totalTime = SumDurations(domains[d].sessions)

\* a domain holds two sessions of positive duration
C4_Witness ==
    \E d \in DOMAIN domains :
       /\ Len(domains[d].sessions) = 2
       /\ domains[d].sessions[1].duration > 0
       /\ domains[d].sessions[2].duration > 0

\* the reading wall of Date.now() falls on the UTC day number day
OnDay(wall, day) == day * DayMs <= wall /\ wall < (day + 1) * DayMs

RECURSIVE SumOnDay(_, _, _)
SumOnDay(sessions, walls, day) ==
    IF sessions = <<>> THEN 0
    ELSE (IF OnDay(Head(walls), day) THEN Head(sessions).duration ELSE 0)
         + SumOnDay(Tail(sessions), Tail(walls), day)

\* C5: for every stored domain and every day, dailyStats has a bucket for
\* the day exactly if a session of the domain's list was stopped on that
\* day, and the bucket is the sum of the durations of those sessions.
C5_DailyStatsBucketsByStopDay ==
    \A d \in DOMAIN domains :
       /\ d \in DOMAIN stopWall
       /\ Len(stopWall[d]) = Len(domains[d].sessions)
       /\ DOMAIN domains[d].dailyStats \subseteq 0..(MaxDay + 1)
       /\ \A day \in 0..(MaxDay + 1) :
             IF day \in DOMAIN domains[d].dailyStats
             THEN /\ \E i \in 1..Len(stopWall[d]) : OnDay(stopWall[d][i], day)
                  /\ domains[d].dailyStats[day] =
                        SumOnDay(domains[d].sessions, stopWall[d], day)
             ELSE \A i \in 1..Len(stopWall[d]) : ~OnDay(stopWall[d][i], day)

\* a domain holds two sessions of positive duration stopped on two
\* different days, each in the bucket of its own day
C5_Witness ==
    \E d \in DOMAIN domains :
       /\ Len(domains[d].sessions) = 2
       /\ domains[d].sessions[1].duration > 0
       /\ domains[d].sessions[2].duration > 0
       /\ \E day \in 0..MaxDay :
             /\ OnDay(stopWall[d][1], day + 1)
             /\ OnDay(stopWall[d][2], day)
             /\ domains[d].dailyStats[day] = domains[d].sessions[2].duration

\* C6: every step of the system leaves each domain's sessions list with the
\* list before the step as a prefix.
C6_SessionsAppendOnly ==
    [][\A d \in DOMAIN domains :
          /\ d \in DOMAIN domains'
          /\ IsPrefix(domains[d].sessions, domains'[d].sessions)]_vars

\* C7: stopSession called while the slot is empty returns null and writes
\* nothing: the slot stays null and the domains map is as before.
C7_IdleStopWritesNothing ==
    [][(last'.op = "stop" /\ activeSession = Null) =>
          /\ last'.outcome = "null"
          /\ last'.ret = Null
          /\ last'.writes = 0
          /\ activeSession' = Null
          /\ domains' = domains]_vars

\* stopSession has returned null on an empty slot, with sessions already
\* folded
C7_Witness ==
    /\ last.op = "stop"
    /\ last.outcome = "null"
    /\ last.faults = 0
    /\ last.writes = 0
    /\ activeSession = Null
    /\ DOMAIN domains # {}

\* C8: in every state, startSession with a blank domain, or with a tabId or
\* windowId that is not a non-negative integer, ends in a validation error
\* having made no storage read and no storage write, the slot and the
\* domains map as before; with a non-blank domain, tabId = 0 and
\* windowId = 0 no validation error is raised.
C8_InvalidArgumentsRejectedUntouched ==
    /\ \A domain \in DomainInputs, tabId \in TabIdInputs,
          windowId \in WindowIdInputs :
          (AllSpaces(domain) \/ ~IsId(tabId) \/ ~IsId(windowId)) =>
             ~ENABLED (/\ StartSession(domain, tabId, windowId)
                       /\ ~(/\ last'.outcome = "error"
                            /\ last'.err \in ValidationErrors
                            /\ last'.reads = 0
                            /\ last'.writes = 0
                            /\ activeSession' = activeSession
                            /\ domains' = domains))
    /\ \A domain \in DomainInputs :
          ~AllSpaces(domain) =>
             ~ENABLED (/\ StartSession(domain, Num(0), Num(0))
                       /\ last'.err \in ValidationErrors)

\* a call was turned away for its windowId while a paused session was in
\* the slot
C8_Witness ==
    /\ last.op = "start"
    /\ last.outcome = "error"
    /\ last.err = "BadWindowId"
    /\ last.reads = 0
    /\ activeSession # Null
    /\ activeSession.isPaused

\* C9: a pauseSession or resumeSession that does not end in an error, with
\* a session in the slot, leaves that session with isPaused = true (pause)
\* or false (resume) and everything else of it, and the domains map, as
\* before; with an empty slot it returns null and writes nothing.
C9_PauseResumeToggleOnlyTheFlag ==
    [][(last'.op \in {"pause", "resume"} /\ last'.outcome # "error") =>
          IF activeSession # Null
          THEN /\ activeSession' =
                     [activeSession EXCEPT !.isPaused = (last'.op = "pause")]
               /\ domains' = domains
          ELSE /\ last'.outcome = "null"
               /\ last'.ret = Null
               /\ last'.writes = 0
               /\ activeSession' = Null
               /\ domains' = domains]_vars

\* C10: for the session in the slot, started at clock s, getSessionDuration
\* at clock t returns max(0, t - s) whether the session is paused or not,
\* and a stopSession at clock t that completes records the duration
\* max(0, t - s), whatever pauses and resumes came in between.
C10_PauseDoesNotGateTheClock ==
    [][/\ last'.op = "duration" =>
             last'.ret.duration = Max0(last'.now - startedAt)
       /\ (last'.op = "stop" /\ last'.outcome = "ok") =>
             last'.ret.duration = Max0(last'.now - startedAt)]_vars

\* the duration of a paused session was asked for and is positive
C10_Witness ==
    /\ last.op = "duration"
    /\ activeSession # Null
    /\ activeSession.isPaused
    /\ last.ret.session = activeSession
    /\ last.ret.duration > 0

\* C17: a startSession, stopSession, pauseSession or resumeSession during
\* which a raw storage read or write rejected ends in the wrapped storage
\* error: it neither succeeds nor returns null.
C17_StorageFailureSurfaces ==
    (last.op \in {"start", "stop", "pause", "resume"} /\ last.faults > 0) =>
       /\ last.outcome = "error"
       /\ last.err = "Storage"

\* C18: an initialize made right after an initialize that completed writes
\* nothing and leaves version, installDate and settings as the first call
\* left them.
C18_InitializeIdempotent ==
    [][(last.op = "initialize" /\ last.outcome = "ok"
        /\ last'.op = "initialize") =>
          /\ last'.writes = 0
          /\ version' = version
          /\ installDate' = installDate
          /\ settings' = settings]_vars

\* a second initialize has run after one that overwrote nothing but the
\* absent keys of a partly filled storage
C18_Witness ==
    /\ last.op = "initialize"
    /\ last.outcome = "ok"
    /\ last.writes = 0
    /\ version = [value |-> 1]
    /\ installDate # Null
    /\ installDate.value > 0
    /\ settings # Null
    /\ settings.excludedDomains # {}

\* the documented defaults of the settings
DefaultSettingsValue ==
    [pillPosition |-> "top-right", pillVisibility |-> TRUE,
     dataRetentionDays |-> 30, excludedDomains |-> {}]

\* C19: an initialize that completes leaves every key of version,
\* installDate and settings that was present with the value it had, gives
\* every key that was absent its default (version 1, installDate a reading
\* of Date.now(), the default settings), and leaves domains and
\* activeSession alone.
C19_InitializeWritesOnlyAbsentKeys ==
    [][(last'.op = "initialize" /\ last'.outcome = "ok") =>
          /\ IF version # Null THEN version' = version
             ELSE version' = [value |-> 1]
          /\ IF installDate # Null THEN installDate' = installDate
             ELSE installDate'.value \in WallClock
          /\ IF settings # Null THEN settings' = settings
             ELSE settings' = DefaultSettingsValue
          /\ domains' = domains
          /\ activeSession' = activeSession]_vars

\* C20: getDomainData, getActiveSession and getSettings never end in an
\* error and write nothing; when their raw read rejects, or nothing is
\* stored, they return the fallback (an empty record, null, the default
\* settings), and otherwise the stored value.
C20_BestEffortReads ==
    [][(last'.op \in {"getDomainData", "getActiveSession", "getSettings"}) =>
          /\ last'.outcome = "ok"
          /\ last'.writes = 0
          /\ <<activeSession, domains, version, installDate, settings>>'
                = <<activeSession, domains, version, installDate, settings>>
          /\ last'.op = "getSettings" =>
                last'.ret = IF last'.faults = 0 /\ settings # Null
                            THEN settings ELSE DefaultSettingsValue
          /\ last'.op = "getActiveSession" =>
                last'.ret = IF last'.faults = 0 THEN activeSession
                            ELSE Null
          /\ last'.op = "getDomainData" =>
                IF last'.faults = 0 /\ last'.ret.domain \in DOMAIN domains
                THEN last'.ret.data = domains[last'.ret.domain]
                ELSE /\ last'.ret.data.totalTime = 0
                     /\ last'.ret.data.sessions = <<>>
                     /\ last'.ret.data.dailyStats = <<>>]_vars

\* getSettings has absorbed a rejected read while other settings were
\* stored
C20_Witness ==
    /\ last.op = "getSettings"
    /\ last.faults = 1
    /\ settings # Null
    /\ settings # DefaultSettingsValue
    /\ last.ret = DefaultSettingsValue
    /\ activeSession # Null
    /\ DOMAIN domains # {}

(***************************************************************************)
(* Vocabulary of the properties of the event handlers.                     *)
(***************************************************************************)
\* an http or https URL
IsHttp(url) ==
    url # Null /\ (url.protocol = "http:" \/ url.protocol = "https:")

\* the domain is on the stored exclusion list
ExcludedIn(stored, domain) ==
    stored # Null /\ domain \in stored.excludedDomains

\* the URL of a handler's event: the URL of the tab looked up (tab
\* activated), the changed URL (tab updated), the URL navigated to
EventUrl(rec) ==
    IF rec.event.kind = "activated"
    THEN (IF rec.tab = Null THEN Null ELSE rec.tab.url)
    ELSE rec.event.url

\* the window of a handler's event
EventWindow(rec) ==
    IF rec.event.kind = "activated" THEN rec.event.windowId
    ELSE rec.tab.windowId

\* the event of the handler passes every filter: its tab is known, its URL
\* is http(s), its domain is not excluded, and it is a URL change on the
\* active tab (tab updated) or a main frame navigation of the active tab
PassesFilter(rec) ==
    /\ rec.event.kind \notin {"focus", "shutdown"}
    /\ rec.tab # Null
    /\ IsHttp(EventUrl(rec))
    /\ ~ExcludedIn(settings, EventUrl(rec).hostname)
    /\ rec.event.kind = "updated" => rec.tab.active
    /\ rec.event.kind = "navigation" =>
          rec.event.frameId = 0 /\ rec.tab.active

\* the event of the handler fails a filter other than the exclusion list
FailsPlainFilter(rec) ==
    \/ /\ rec.event.kind = "activated"
       /\ rec.tab # Null
       /\ ~IsHttp(rec.tab.url)
    \/ /\ rec.event.kind = "updated"
       /\ (rec.event.url = Null \/ ~rec.event.tab.active
           \/ ~IsHttp(rec.event.url))
    \/ /\ rec.event.kind = "navigation"
       /\ (rec.event.frameId # 0 \/ ~IsHttp(rec.event.url)
           \/ (rec.tab # Null /\ ~rec.tab.active))

\* the URL of the event is known, is http(s), and its domain is on the
\* stored exclusion list
IsExcluded(rec) ==
    /\ rec.event.kind \notin {"focus", "shutdown"}
    /\ IsHttp(EventUrl(rec))
    /\ ExcludedIn(settings, EventUrl(rec).hostname)

\* where a handler stands while it is inside stopSession or startSession
EnginePcs ==
    {"stop_slot", "stop_data", "merge_read", "merge_write", "stop_clear",
     "start_slot", "start_write"}

\* handler h takes the step, and rec is what is known of it: its record
\* after the step, or before the step if the step made it return
StepOf(h) == InFlight(handlers[h]) /\ handlers'[h].pc # handlers[h].pc

Known(h) == IF InFlight(handlers'[h]) THEN handlers'[h] ELSE handlers[h]

\* the step makes handler h return
Completes(h) == InFlight(handlers[h]) /\ handlers'[h].pc = "done"

\* up to and including the step, no raw call of handler h has rejected
FaultFree(h) ==
    IF handlers'[h].pc = "done"
    THEN /\ ~handlers[h].faulty
         /\ ~handlers'[h].absorbed
         /\ handlers'[h].error \notin {"Storage", "Browser"}
    ELSE ~handlers'[h].faulty

\* the last entry of a sessions list
LastOf(sessions) == sessions[Len(sessions)]

\* the Session that folding the active session x gives: x's startTime,
\* tabId and windowId, and the duration max(0, endTime - startTime)
IsFoldOf(session, x) ==
    /\ session.startTime = x.startTime
    /\ session.tabId = x.tabId
    /\ session.windowId = x.windowId
    /\ session.endTime \in Clock
    /\ session.duration = Max0(session.endTime - session.startTime)

(***************************************************************************)
(* Properties of the event handlers.                                       *)
(***************************************************************************)
\* C11: when a tab-activated, tab-updated or navigation-completed handler
\* whose event passes the filters (http(s) URL, domain not excluded, the
\* tab looked up, and for the last two the active tab and the main frame)
\* runs with no other handler in flight and no raw call rejecting, then
\* (a) its fold step appends to the domain of the session that was in the
\* slot the Session made of it, adds its duration to totalTime and leaves
\* the other domains alone, and (b) its last step writes into the empty
\* slot a session for the event's domain, tabId and windowId with
\* isPaused = false, the earlier session being the last entry of its own
\* domain's list by then.
C11_RestartStopsThenStarts ==
    [][\A h \in Handlers :
          LET rec == handlers[h]
          IN  /\ (/\ StepOf(h)
                  /\ rec.pc = "merge_write"
                  /\ rec.alone
                  /\ FaultFree(h)) =>
                    LET d == rec.before.domain
                        old == IF d \in DOMAIN domains
                               THEN domains[d].sessions ELSE <<>>
                        total == IF d \in DOMAIN domains
                                 THEN domains[d].totalTime ELSE 0
                    IN  /\ activeSession = rec.before
                        /\ activeSession' = rec.before
                        /\ DOMAIN domains' = DOMAIN domains \cup {d}
                        /\ Len(domains'[d].sessions) = Len(old) + 1
                        /\ SubSeq(domains'[d].sessions, 1, Len(old)) = old
                        /\ IsFoldOf(LastOf(domains'[d].sessions), rec.before)
                        /\ domains'[d].totalTime =
                              total + LastOf(domains'[d].sessions).duration
                        /\ \A e \in DOMAIN domains \ {d} :
                              domains'[e] = domains[e]
              /\ (/\ Completes(h)
                  /\ rec.alone
                  /\ FaultFree(h)
                  /\ PassesFilter(rec)) =>
                    /\ handlers'[h].outcome = "ok"
                    /\ activeSession = Null
                    /\ activeSession' # Null
                    /\ activeSession'.domain = EventUrl(rec).hostname
                    /\ IsIdOf(activeSession'.tabId, rec.event.tabId)
                    /\ IsIdOf(activeSession'.windowId, EventWindow(rec))
                    /\ activeSession'.startTime \in Clock
                    /\ activeSession'.isPaused = FALSE
                    /\ domains' = domains
                    /\ rec.before # Null =>
                          /\ rec.before.domain \in DOMAIN domains
                          /\ domains[rec.before.domain].sessions # <<>>
                          /\ IsFoldOf(
                                LastOf(domains[rec.before.domain].sessions),
                                rec.before)]_vars

\* two events were handled one after the other, and the second folded the
\* session of the first and started its own
C11_Witness ==
    /\ dispatched = 2
    /\ handlers[2] = [pc |-> "idle"]
    /\ handlers[1].pc = "done"
    /\ handlers[1].outcome = "ok"
    /\ ~handlers[1].absorbed
    /\ slotWriter = 1
    /\ activeSession # Null
    /\ ~activeSession.isPaused
    /\ \E d \in DOMAIN domains :
          /\ Len(domains[d].sessions) = 1
          /\ domains[d].sessions[1].duration > 0

\* C12: no handler lets an error out: whatever raw call rejects in it and
\* whatever error the engine raises, a handler that has returned has
\* resolved (it ran to its end, ignored its event, or caught the error).
C12_HandlersAreErrorBoundaries ==
    \A h \in Handlers :
       handlers[h].pc = "done" =>
          /\ handlers[h].outcome \in {"ok", "ignored", "caught"}
          /\ handlers[h].error # "none" => handlers[h].outcome = "caught"

\* a handler caught the engine's conflict error, and the handler it ran
\* with went on to its end
C12_Witness ==
    /\ handlers[1].pc = "done"
    /\ handlers[1].outcome = "caught"
    /\ handlers[1].error = "Conflict"
    /\ handlers[2].pc = "done"
    /\ handlers[2].outcome = "ok"

\* C13: a handler whose event fails a filter (URL missing or not http(s),
\* domain on the stored exclusion list, tab updated without a URL change
\* or on a tab that is not active, navigation in a frame other than 0 or
\* on a tab that is not active) takes no step that changes the slot or the
\* domains map, and never enters stopSession or startSession.
C13_FilteredEventsHaveNoEffect ==
    [][\A h \in Handlers :
          (StepOf(h)
           /\ (FailsPlainFilter(Known(h)) \/ IsExcluded(Known(h)))) =>
             /\ activeSession' = activeSession
             /\ domains' = domains
             /\ handlers'[h].pc \notin EnginePcs]_vars

\* C13 as amended: the same, the exclusion list counting only while no read
\* of the handler has rejected (a rejected read of the settings is absorbed
\* and the handler goes on with the default, empty exclusion list).
C13_FilteredEventsHaveNoEffectOnceSettingsRead ==
    [][\A h \in Handlers :
          (StepOf(h)
           /\ (\/ FailsPlainFilter(Known(h))
               \/ IsExcluded(Known(h)) /\ ~Known(h).faulty)) =>
             /\ activeSession' = activeSession
             /\ domains' = domains
             /\ handlers'[h].pc \notin EnginePcs]_vars

\* an event was ignored while the session an earlier event started is
\* running
C13_Witness ==
    /\ dispatched = 2
    /\ handlers[2] = [pc |-> "idle"]
    /\ handlers[1].pc = "done"
    /\ handlers[1].outcome = "ignored"
    /\ activeSession # Null
    /\ domains = <<>>

\* the step is a step of the window-focus handler h
FocusStep(h) == StepOf(h) /\ handlers[h].event.kind = "focus"

\* what the focus handler is to leave in the slot that holds x
FocusEffect(rec, x) ==
    IF x = Null THEN Null
    ELSE IF rec.event.windowId = WindowIdNone
    THEN [x EXCEPT !.isPaused = TRUE]
    ELSE IF x.isPaused THEN [x EXCEPT !.isPaused = FALSE]
    ELSE x

\* the cases in which the focus handler is to write nothing: an empty slot,
\* and focus gained while the session is not paused
FocusIdle(rec, x) ==
    \/ x = Null
    \/ rec.event.windowId # WindowIdNone /\ ~x.isPaused

C15_RacingStartsOverwrite ==
    [][\A h \in Handlers :
          /\ (/\ StepOf(h)
              /\ handlers[h].pc = "start_slot"
              /\ activeSession = Null
              /\ \E g \in Handlers \ {h} : handlers[g].pc = "start_write") =>
                handlers'[h].pc = "start_write"
          /\ (/\ StepOf(h)
              /\ handlers[h].pc = "start_write"
              /\ handlers[h].racedWith # 0) =>
                /\ handlers'[h].pc = "done"
                /\ handlers'[h].error # "Conflict"
                /\ handlers'[h].error # "Storage" =>
                      /\ handlers'[h].outcome = "ok"
                      /\ activeSession' = handlers[h].session
                      /\ slotWriter' = h
                      /\ domains' = domains]_vars

\* two handlers raced in startSession, both succeeded, and the slot holds
\* the session of the second writer only
C15_Witness ==
    /\ handlers[1].pc = "done"
    /\ handlers[2].pc = "done"
    /\ handlers[1].outcome = "ok"
    /\ handlers[2].outcome = "ok"
    /\ handlers[1].racedWith = 2
    /\ handlers[2].racedWith = 1
    /\ slotWriter = 1
    /\ activeSession # Null
    /\ activeSession.startTime = 0
    /\ domains = <<>>

\* C16: no two handlers stand between the read and the write of
\* updateDomainData at the same time.
C16_FoldsNeverOverlap ==
    \A g \in Handlers, h \in Handlers :
       g # h =>
          ~(handlers[g].pc = "merge_write" /\ handlers[h].pc = "merge_write")

\* the five keys of browser.storage.local
persisted == <<activeSession, domains, version, installDate, settings>>

\* the call ends in the storage-operation error and nothing persisted has
\* changed
FailsLoudly(op) ==
    /\ last'.op = op
    /\ last'.outcome = "error"
    /\ last'.err = "Storage"
    /\ UNCHANGED persisted

\* C21: whenever the raw set rejects inside set, setActiveSession,
\* updateSettings (whether or not its read was absorbed) or
\* updateDomainData, the call ends in the storage-operation error and the
\* five persisted keys are as they were before the call.
C21_WritesNeverFailSilently ==
    /\ \A items \in SetInputs :
          ~ENABLED (SetAttempt(items, TRUE) /\ ~FailsLoudly("set"))
    /\ \A session \in SessionInputs :
          ~ENABLED (/\ SetActiveSessionAttempt(session, TRUE)
                    /\ ~FailsLoudly("setActiveSession"))
    /\ \A updates \in SettingsUpdates, frSettings \in BOOLEAN :
          ~ENABLED (/\ UpdateSettingsAttempt(updates, frSettings, TRUE)
                    /\ ~FailsLoudly("updateSettings"))
    /\ \A domain \in DomainKeys, updates \in DomainUpdates,
          wall \in UpdateWallClock :
          ~ENABLED (/\ UpdateDomainDataAttempt(domain, updates, wall, FALSE,
                                               TRUE)
                    /\ ~FailsLoudly("updateDomainData"))

\* the raw set of updateDomainData was rejected while every key held a
\* value: the call ended in an error
C21_Witness ==
    /\ last.op = "updateDomainData"
    /\ last.outcome = "error"
    /\ last.writes = 1
    /\ domains # <<>>
    /\ activeSession # Null
    /\ settings # Null
    /\ version # Null
    /\ installDate # Null

\* the fields of a DomainData record a caller of updateDomainData sets
MergedFields == {"totalTime", "sessions", "dailyStats"}

\* the record of domain in map, an absent domain reading as the empty
\* record
RecordOf(map, domain) ==
    IF domain \in DOMAIN map THEN map[domain]
    ELSE [totalTime |-> 0, sessions |-> <<>>, dailyStats |-> <<>>]

\* C22: an updateDomainData(d, u) that succeeds leaves in d's record, for
\* each of totalTime, sessions and dailyStats, u's value when u names the
\* field and otherwise the value of d's record before the call (of the
\* empty record if d was not stored), stamps lastAccessed with the clock
\* reading of the call whatever u says, leaves the record of every other
\* domain as it was, and touches no other key.
C22_UpdateDomainDataMerges ==
    [][(last'.op = "updateDomainData" /\ last'.outcome = "ok") =>
          LET d == last'.ret.domain
              u == last'.ret.updates
              before == RecordOf(domains, d)
          IN  /\ DOMAIN domains' = DOMAIN domains \cup {d}
              /\ \A f \in MergedFields :
                    domains'[d][f] = IF f \in DOMAIN u THEN u[f]
                                     ELSE before[f]
              /\ domains'[d].lastAccessed = last'.ret.wall
              /\ \A k \in DOMAIN domains \ {d} : domains'[k] = domains[k]
              /\ UNCHANGED <<activeSession, version, installDate,
                             settings>>]_vars

\* an update that names sessions and lastAccessed was merged over a stored
\* record next to another domain's record: totalTime and dailyStats were
\* kept, sessions replaced, lastAccessed stamped
C22_Witness ==
    /\ last.op = "updateDomainData"
    /\ last.outcome = "ok"
    /\ last.ret.domain = <<"a">>
    /\ last.ret.updates = [sessions |-> <<>>, lastAccessed |-> 1]
    /\ DOMAIN domains = {<<"a">>, <<"a", "a">>}
    /\ domains[<<"a">>].totalTime = 1
    /\ domains[<<"a">>].dailyStats # <<>>
    /\ domains[<<"a">>].sessions = <<>>
    /\ domains[<<"a">>].lastAccessed = 2 * DayMs
    /\ domains[<<"a", "a">>].totalTime = 7

\* the settings in storage, absent settings reading as the defaults
SettingsOrDefault == IF settings = Null THEN DefaultSettingsValue ELSE settings

\* settings' is the shallow merge of u over the settings in storage
IsShallowMerge(u) ==
    /\ DOMAIN settings' = DOMAIN DefaultSettingsValue
    /\ \A f \in DOMAIN DefaultSettingsValue :
          settings'[f] = IF f \in DOMAIN u THEN u[f]
                         ELSE SettingsOrDefault[f]

\* C23: an updateSettings(u) whose raw set is accepted leaves in storage,
\* whether its raw read resolved or rejected, settings in which every
\* field u names has u's value and every other field has the value it had
\* in storage before the call (the default value if no settings were
\* stored).
C23_UpdateSettingsIsShallowMerge ==
    \A u \in SettingsUpdates, frSettings \in BOOLEAN :
       ~ENABLED (/\ UpdateSettingsAttempt(u, frSettings, FALSE)
                 /\ ~IsShallowMerge(u))

\* timestamps calculateDuration is asked about, beyond the clock readings
\* of the model
DurationInputs == (0 - MaxClock - 1)..(MaxClock + 1)

\* C24: calculateDuration(start, end) is end - start when end >= start and
\* 0 when end < start; every duration in a completed Session, every
\* totalTime and every dailyStats value in storage is at least 0, and the
\* Session a stop returns has the duration 0 when the clock read at stop
\* is earlier than the session's startTime.
C24_DurationsNeverNegative ==
    /\ \A start \in DurationInputs, end \in DurationInputs :
          calculateDuration(start, end) =
             IF end >= start THEN end - start ELSE 0
    /\ \A d \in DOMAIN domains :
          /\ domains[d].totalTime >= 0
          /\ \A i \in 1..Len(domains[d].sessions) :
                LET session == domains[d].sessions[i]
                IN  /\ session.duration >= 0
                    /\ session.endTime < session.startTime =>
                          session.duration = 0
          /\ \A day \in DOMAIN domains[d].dailyStats :
                domains[d].dailyStats[day] >= 0
    /\ (last.op = "stop" /\ last.outcome = "ok") =>
          /\ last.ret.duration >= 0
          /\ last.ret.endTime < last.ret.startTime => last.ret.duration = 0

\* a session was stopped at a clock reading earlier than its startTime and
\* folded with the duration 0
C24_Witness ==
    /\ last.op = "stop"
    /\ last.outcome = "ok"
    /\ last.ret.endTime < last.ret.startTime
    /\ \E d \in DOMAIN domains :
          /\ Len(domains[d].sessions) > 0
          /\ domains[d].sessions[Len(domains[d].sessions)] = last.ret
          /\ domains[d].totalTime = 0

(***************************************************************************)
(* Properties of the service's life cycle.                                 *)
(***************************************************************************)
\* the step is a call of BackgroundService.initialize
InitializeCall == service'.calls = service.calls + 1

\* storage initialization has been started n times more than before
StorageInitRuns(n) == service'.storageInits = service.storageInits + n

\* registerEventListeners has run n times more than before
ListenerRuns(n) == service'.registered = service.registered + n

C26_FailedInitializeCanBeRetried ==
    /\ [][InitializeCall =>
             /\ last'.outcome \in {"ok", "error"}
             /\ last'.outcome = "error" =>
                   /\ ~service.initialized
                   /\ ~service'.initialized
                   /\ last'.err = "Storage"
                   /\ StorageInitRuns(1)
                   /\ ListenerRuns(0)
                   /\ service'.failures = service.failures + 1
                   /\ UNCHANGED persisted
             /\ ~service.initialized =>
                   /\ StorageInitRuns(1)
                   /\ last'.outcome = "ok" =>
                         /\ ListenerRuns(1)
                         /\ service'.initialized
                         /\ version' # Null
                         /\ installDate' # Null
                         /\ settings' # Null]_vars
    /\ [](service.failures = service.calls =>
             /\ ~service.initialized
             /\ service.registered = 0)
    /\ [][last'.op = "isInitialized" =>
             last'.ret.initialized = service.initialized]_vars

\* initialize failed, and the next call initialized storage and the service
C26_Witness ==
    /\ service.calls = 2
    /\ service.failures = 1
    /\ service.storageInits = 2
    /\ service.registered = 1
    /\ service.initialized
    /\ last.op = "serviceInitialize"
    /\ last.outcome = "ok"

\* the step is a step of the shutdown call h
ShutdownStep(h) == StepOf(h) /\ handlers[h].event.kind = "shutdown"

\* what every shutdown does: it returns normally whatever failed, and with
\* the slot empty it returns at once, changing nothing
ShutdownIsSafe(h) ==
    /\ Completes(h) => handlers'[h].outcome \in {"ok", "caught"}
    /\ (handlers[h].pc = "slot" /\ activeSession = Null) =>
          /\ handlers'[h].pc = "done"
          /\ handlers'[h].outcome = "ok"
          /\ UNCHANGED <<activeSession, domains>>

\* a shutdown that ran with no other handler in flight and no raw call
\* rejecting, over a slot that held a session, returns from the step that
\* empties the slot, the session being the last one folded into its domain
ShutdownStops(h) ==
    LET rec == handlers[h]
    IN  (Completes(h) /\ rec.alone /\ FaultFree(h) /\ rec.before # Null) =>
           /\ rec.pc = "stop_clear"
           /\ handlers'[h].outcome = "ok"
           /\ activeSession = rec.before
           /\ activeSession' = Null
           /\ domains' = domains
           /\ rec.before.domain \in DOMAIN domains
           /\ IsFoldOf(LastOf(domains[rec.before.domain].sessions),
                       rec.before)
           /\ LastOf(ledger.ids[rec.before.domain]) = ledger.slot

\* C27: shutdown calls stopSession whenever the slot holds a session when
\* it looks (and then, run on its own with no raw call rejecting, leaves
\* the session folded into its domain and the slot empty), makes no
\* stopSession call when the slot is empty, and returns normally whatever
\* fails.
C27_ShutdownStopsTheSession ==
    [][\A h \in Handlers :
          ShutdownStep(h) =>
             /\ ShutdownIsSafe(h)
             /\ ShutdownStops(h)
             /\ (handlers[h].pc = "slot" /\ activeSession # Null) =>
                   handlers'[h].pc = "stop_slot"]_vars

\* C27 as amended: the same, shutdown calling stopSession whenever the slot
\* holds a session and its own read of the slot does not reject (a
\* rejected read is absorbed as an empty slot: shutdown then returns
\* normally and the session stays in the slot).
C27_ShutdownStopsTheSessionItReads ==
    [][\A h \in Handlers :
          ShutdownStep(h) =>
             /\ ShutdownIsSafe(h)
             /\ ShutdownStops(h)
             /\ (handlers[h].pc = "slot" /\ activeSession # Null) =>
                   IF FaultFree(h) THEN handlers'[h].pc = "stop_slot"
                   ELSE /\ handlers'[h].pc = "done"
                        /\ handlers'[h].outcome = "ok"
                        /\ UNCHANGED <<activeSession, domains>>]_vars

\* a shutdown that ran on its own after the handler that started the
\* session has folded it and emptied the slot
C27_Witness ==
    /\ dispatched = 2
    /\ handlers[2] = [pc |-> "idle"]
    /\ handlers[1].pc = "done"
    /\ handlers[1].outcome = "ok"
    /\ ~handlers[1].absorbed
    /\ activeSession = Null
    /\ ledger.started = 1
    /\ ledger.slot = 0
    /\ ledger.ids = (<<"a">> :> <<1>>)
    /\ ledger.cleared = {1}
    /\ Len(domains[<<"a">>].sessions) = 1

\* no entry occurs twice in the sequence
NoRepeat(seq) == \A i, j \in 1..Len(seq) : seq[i] = seq[j] => i = j

\* C30: whatever the interleaving of the handlers and of shutdown, no
\* session a startSession wrote into the slot is the origin of two entries
\* of the sessions lists in storage: none was appended, and added to
\* totalTime and to a daily bucket, twice.
C30_SessionsFoldedAtMostOnce ==
    /\ \A d \in DOMAIN ledger.ids : NoRepeat(ledger.ids[d])
    /\ \A d, e \in DOMAIN ledger.ids :
          d # e =>
             \A i \in 1..Len(ledger.ids[d]), j \in 1..Len(ledger.ids[e]) :
                ledger.ids[d][i] # ledger.ids[e][j]

(***************************************************************************)
(* Properties of extractDomain.                                            *)
(***************************************************************************)
\* the string begins with the tokens of prefix
Begins(str, prefix) ==
    /\ Len(str) >= Len(prefix)
    /\ \A i \in 1..Len(prefix) : str[i] = prefix[i]

\* C28: extractDomain returns normally; for a string that begins with
\* chrome://, moz-extension:// or about: it returns the scheme (chrome,
\* moz-extension, about); for the empty string, for an argument that is
\* not a string and for a string without a ":" (which has no scheme and
\* does not parse) it returns "unknown".
C28_ExtractDomainSchemeTokens ==
    last.op = "extractDomain" =>
       LET arg == last.ret.url
           text == arg = Null \/ arg.kind # "string"
           url == IF text THEN <<>> ELSE arg.chars
           domain == last.ret.domain
       IN  /\ last.outcome = "ok"
           /\ IF url = <<>> THEN domain = <<"unknown">>
              ELSE IF Begins(url, <<"chrome", ":", "/", "/">>)
              THEN domain = <<"chrome">>
              ELSE IF Begins(url, <<"moz-extension", ":", "/", "/">>)
              THEN domain = <<"moz-extension">>
              ELSE IF Begins(url, <<"about", ":">>)
              THEN domain = <<"about">>
              ELSE (\A i \in 1..Len(url) : url[i] # ":") =>
                      domain = <<"unknown">>

(***************************************************************************)
(* Properties of getAll.                                                   *)
(***************************************************************************)
\* C29: a getAll that resolves returns, for each of the five keys, the
\* stored value when the key is present (whatever that value is) and the
\* documented default when it is absent (no domains, no session, the
\* default settings, version 1, the current time as installDate), and it
\* writes nothing.
C29_GetAllBackfillsOnlyMissingKeys ==
    (last.op = "getAll" /\ last.outcome = "ok") =>
       /\ last.writes = 0
       /\ last.ret.domains = domains
       /\ last.ret.activeSession = activeSession
       /\ last.ret.settings =
             (IF settings = Null THEN DefaultSettingsValue ELSE settings)
       /\ last.ret.version = (IF version = Null THEN Stored(1) ELSE version)
       /\ last.ret.installDate =
             (IF installDate = Null THEN Stored(last.now) ELSE installDate)

(***************************************************************************)
(* Properties of the slot under interleaved handlers.                      *)
(***************************************************************************)
\* a pauseSession or resumeSession of handler h writes the slot
ToggleWrites(h) ==
    /\ handlers[h].pc = "toggle_write"
    /\ handlers'[h].pc = "done"
    /\ handlers'[h].outcome = "ok"

\* C31: a session that a stopSession has folded and cleared from the slot
\* is never in the slot again, and the write of a pauseSession or
\* resumeSession never replaces a session that was started after the one
\* the call read.
C31_StoppedSessionsStayStopped ==
    [][/\ ledger'.slot # 0 => ledger'.slot \notin ledger'.cleared
       /\ \A h \in Handlers :
             (ToggleWrites(h) /\ ledger.slot > handlers[h].sid) =>
                ledger'.slot = ledger.slot]_vars

(***************************************************************************)
(* Properties of the session engine under failing storage.                 *)
(***************************************************************************)
\* C32: a stopSession that ends in an error leaves the domains map and
\* the active-session slot as they were before the call.
C32_FailedStopChangesNothing ==
    [][(last'.op = "stop" /\ last'.outcome = "error") =>
          /\ domains' = domains
          /\ activeSession' = activeSession]_vars

\* C33: whenever a startSession writes its new session into the slot, the
\* slot was empty just before the call, also when the raw read of the
\* slot rejected.
C33_StartNeverReplacesASession ==
    [][(last'.op = "start" /\ last'.outcome = "ok"
           /\ activeSession' = last'.ret) =>
          activeSession = Null]_vars

(***************************************************************************)
(* Properties of overlapping tab and navigation handlers.                  *)
(***************************************************************************)
\* the handler has returned after passing every filter, and no raw call
\* of it rejected: it started its session or ran into the conflict check
RanClean(rec) ==
    /\ rec.pc = "done"
    /\ \/ rec.outcome = "ok" /\ ~rec.absorbed
       \/ rec.outcome = "caught" /\ rec.error = "Conflict"

\* two tab or navigation events were delivered, the second while the
\* handler of the first was in flight; both handlers have returned, and
\* no raw call of either rejected
TwoOverlappedClean ==
    /\ dispatched = 2
    /\ ledger.tabsOnly
    /\ RanClean(handlers[1])
    /\ RanClean(handlers[2])

\* C34: when the handlers of two tab or navigation events for valid,
\* non-excluded URLs overlap and no storage operation fails, the slot
\* holds, after both have completed, the session written by the handler of
\* the event delivered last.
C34_LastEventWins ==
    TwoOverlappedClean => (activeSession # Null /\ slotWriter = 2)

\* C34 (amended): under the same conditions the slot holds, after both
\* have completed, a session, and it is the session that was written
\* last; that is the session of whichever handler's setActiveSession ran
\* last, not necessarily of the event delivered last.
C34_LastWriterWins ==
    TwoOverlappedClean =>
       /\ activeSession # Null
       /\ ledger.slot # 0
       /\ ledger.slot = ledger.started
       /\ slotWriter \in {1, 2}

\* both handlers have completed and the slot holds the session of the
\* event delivered first
C34_Witness ==
    /\ TwoOverlappedClean
    /\ activeSession # Null
    /\ slotWriter = 1
    /\ ledger.slot = ledger.started

(***************************************************************************)
(* Properties of the order of the writes of stopSession.                   *)
(***************************************************************************)
\* the session is in the sessions list of a domain
Folded(id) ==
    \E d \in DOMAIN ledger.ids :
       \E i \in 1..Len(ledger.ids[d]) : ledger.ids[d][i] = id

NoWindowHasFocus ==
    /\ ledger.lostAt >= 0
    /\ \A h \in Handlers :
          InFlight(handlers[h]) => handlers[h].event.kind # "focus"

\* the startSession of handler h writes the slot
StartWrites(h) ==
    /\ handlers[h].pc = "start_write"
    /\ handlers'[h].pc = "done"
    /\ handlers'[h].outcome = "ok"

\* C36: while no window has focus, a session in the active-session slot
\* has isPaused = true.
C36_PausedWhileUnfocused ==
    (NoWindowHasFocus /\ activeSession # Null) => activeSession.isPaused

\* C36 (amended): the handler of a focus-lost event pauses the session it
\* finds (when its pauseSession writes, the slot holds a session with
\* isPaused = true), but every session a tab or navigation handler starts
\* is written with isPaused = false, also while no window has focus.
C36_PauseIsNotKeptAcrossStarts ==
    [][\A h \in Handlers :
          /\ (ToggleWrites(h) /\ handlers[h].event.windowId = WindowIdNone)
                => (activeSession' # Null /\ activeSession'.isPaused)
          /\ StartWrites(h)
                => (activeSession' # Null /\ ~activeSession'.isPaused)]_vars

\* no window has focus, every handler has completed, and the slot holds a
\* session that was started after the focus was lost and is not paused
C36_Witness ==
    /\ NoWindowHasFocus
    /\ \A h \in Handlers : ~InFlight(handlers[h])
    /\ activeSession # Null
    /\ ~activeSession.isPaused
    /\ ledger.slot > ledger.lostAt

(***************************************************************************)
(* Properties of the daily buckets.                                        *)
(***************************************************************************)
RECURSIVE SumOver(_, _)
\* the sum of the values stats holds under keys
SumOver(stats, keys) ==
    IF keys = {} THEN 0
    ELSE LET k == CHOOSE x \in keys : TRUE
         IN  stats[k] + SumOver(stats, keys \ {k})

\* C37: in every state reached from empty storage, the values of every
\* domain's dailyStats add up to its totalTime.
C37_DailyStatsAddUpToTotalTime ==
    \A d \in DOMAIN domains :
       SumOver(domains[d].dailyStats, DOMAIN domains[d].dailyStats)
          = domains[d].totalTime

\* a domain holds time in the buckets of two days
C37_Witness ==
    \E d \in DOMAIN domains :
       /\ Cardinality(DOMAIN domains[d].dailyStats) = 2
       /\ \A k \in DOMAIN domains[d].dailyStats :
             domains[d].dailyStats[k] > 0
       /\ domains[d].totalTime = 2

(***************************************************************************)
(* Properties of overlapping calls of initialize.                          *)
(***************************************************************************)
\* C38: registerEventListeners runs at most once for the service, so each
\* of the four listeners is registered at most once, also when a call of
\* initialize is made while an earlier one is suspended in storage
\* initialization.
C38_ListenersRegisteredAtMostOnce ==
    service.registered <= 1

====
